---- MODULE Spec2Model ----
(***************************************************************************)
(* The session control-protocol engine of the CORE daemon                  *)
(* (daemon/core/api/tlv/corehandlers.py, class CoreHandler): the receive   *)
(* loop of a connection, its message queue and worker threads, the message *)
(* handlers, the teardown of a connection and the attach/detach of         *)
(* connections to sessions.                                                *)
(***************************************************************************)
EXTENDS Integers, Sequences, FiniteSets, TLC

\* ------------------------------------------------------------------ bounds
NumConns == 3
NumThreads == 2
MaxNode == 2
MaxMsgs == 2
MaxBody == 2
MaxServices == 3
NumLetters == 2
MaxLog == 4

Conns == 1..NumConns
Workers == 1..NumThreads
NodeIds == 1..MaxNode
\* handle() names the session it creates after the peer's port: one id per connection
SessIds == Conns
None == 0

\* ------------------------------------------------------- program constants
\* EventTypes (core.emulator.enumerations)
DEFINITION_STATE == 1
CONFIGURATION_STATE == 2
INSTANTIATION_STATE == 3
RUNTIME_STATE == 4
DATACOLLECT_STATE == 5
SHUTDOWN_STATE == 6
START == 7
STOP == 8
PAUSE == 9
RESTART == 10
FILE_OPEN == 11
FILE_SAVE == 12
SCHEDULED == 13
RECONFIGURE == 14
EventTypes == 1..14

\* the drain timeout of finish(), also the timeout of each join
DrainTimeout == 10

\* MessageTypes (core.emulator.enumerations); a type outside it is "UNKNOWN"
MessageTypes ==
    {"NODE", "LINK", "EXECUTE", "REGISTER", "CONFIG", "FILE", "INTERFACE",
     "EVENT", "SESSION", "EXCEPTION"}
\* coreapi.CLASS_MAP: the types with a registered message class
CLASS_MAP == MessageTypes
\* CoreHandler.message_handlers: the dispatch table
message_handlers ==
    {"NODE", "LINK", "EXECUTE", "REGISTER", "CONFIG", "FILE", "INTERFACE",
     "EVENT", "SESSION"}
MessageFlags == {"ADD", "DELETE", "STRING", "TEXT", "TTY", "LOCAL"}

\* ConfigFlags (core.emulator.enumerations); a CONFIG message without a type
\* TLV carries "MISSING"
ConfigFlags == {"NONE", "REQUEST", "UPDATE", "RESET"}
\* the names of the configurable subsystems, and of the registered models
OptionsName == "session"
LocationName == "location"
MetadataName == "metadata"
BrokerName == "broker"
ServicesName == "services"
MobilityName == "MobilityManager"
EmaneName == "emane"
MobilityModels == {"basic_range"}
EmaneModels == {"emane_rfpipe"}
Routable ==
    {"all", OptionsName, LocationName, MetadataName, BrokerName, ServicesName,
     MobilityName, EmaneName} \cup MobilityModels \cup EmaneModels
\* "node_id = node_id * 1000 + interface_id"
KeyFactor == 1000
\* a CONFIG message without an interface number TLV (interface_number is None)
NoIface == -1
\* the nodes and interfaces the CONFIG messages name
ConfigNodes == {1, KeyFactor}
ConfigIfaces == {0, KeyFactor}
\* the keys of the per-model storage: None is the key of a message without a node
ModelKeys ==
    {None} \cup ConfigNodes \cup {n * KeyFactor + i : n \in ConfigNodes, i \in ConfigIfaces}
\* a configuration value: the default, or what an UPDATE carried
ConfigValues == {"default", "a"}
\* the broker's part: the servers registered by addserver (none in a new
\* session), session_id_master and myip (None, "none", until a master sends them)
AllSame(v) ==
    [session |-> v, location |-> v, metadata |-> v, services |-> v,
     mobility |-> [k \in ModelKeys |-> v], emane |-> v,
     emanemodels |-> [k \in ModelKeys |-> v],
     servers |-> IF v = "default" THEN {}
                 ELSE {[name |-> v, host |-> "none", port |-> None]},
     session_id_master |-> None, myip |-> "none"]
\* the configuration of a new session
DefaultConfig == AllSame("default")

VARIABLES
    \* daemon and sessions
    sessions,   \* coreemu.sessions: the ids in the registry
    sstate,     \* session.state
    smaster,    \* session.master
    nodes,      \* session.nodes: node id -> "none" | "default" | "wlan"
    config,     \* the configuration held by the session's configurable subsystems
    services,   \* ServiceManager.services: the registered services, in iteration order
    clients,    \* session.broker.session_clients (a list)
    handlers,   \* the six broadcast handler lists of a session (kept in step)
    \* connection (CoreHandler) fields
    csession,   \* self.session (None before handle())
    cmaster,    \* self.master
    done,       \* self.done
    queue,      \* self.message_queue
    nsr,        \* self.node_status_request (its keys)
    lock,       \* self._shutdown_lock: the worker holding it, or None
    \* the socket: what the peer sends, and how it closes
    wire,       \* the frames the peer sends, in order
    closeKind,  \* "open" | "fin" (orderly close: recv returns no bytes) | "rst" (recv raises)
    sockOk,     \* whether a sendall towards this connection's peer succeeds
    sent,       \* what has been sent to this connection's peer
    \* the receive thread: handle() then finish()
    rpc, rcount, rgot, rmsg, ridx, rsess, rexit, wait, jidx, rdel,
    \* the worker threads: handler_thread()
    wpc, wmsg, wres, widx,
    poll,       \* handle_register_message: the new session and the retries left
    \* history: what each handling did, and the collaborator calls made
    hlog, calls,
    \* send_objects and the objects of session 1 that it describes
    links,      \* the links of the session, as pairs of node ids
    hooks,      \* session._hooks: the states that have a hook script
    nodes_lock, \* session._nodes_lock: the thread that holds it
    opc, oidx,  \* send_objects: its position, and its place in a loop
    nodes_data, links_data,     \* the lists send_objects has collected
    out,        \* the broadcasts send_objects has made
    \* the ebtables queue of network.py (ebq) and the threads that use it
    doupdateloop, updatethread, updatelock, updates, last_update_time,
    net_up,     \* a WLAN: "new", "up" after __init__, "down" after shutdown
    cpc,        \* the threads that build, change and shut down the WLANs
    upc,        \* the update-loop threads
    ebtables_lock,  \* network.ebtables_lock: the thread that holds it
    ovs_lock    \* openvswitch.ebtables_lock

sessVars == <<sessions, sstate, smaster, nodes, config, services, clients, handlers>>
connVars == <<csession, cmaster, done, queue, nsr, lock>>
sockVars == <<wire, closeKind, sockOk, sent>>
rxVars == <<rpc, rcount, rgot, rmsg, ridx, rsess, rexit, wait, jidx, rdel>>
wkVars == <<wpc, wmsg, wres, widx, poll>>
logVars == <<hlog, calls>>
objVars == <<links, hooks, nodes_lock, opc, oidx, nodes_data, links_data, out>>
ebVars == <<doupdateloop, updatethread, updatelock, updates, last_update_time, net_up, cpc, upc,
            ebtables_lock, ovs_lock>>
extVars == <<objVars, ebVars>>
coreVars == <<sessVars, connVars, sockVars, rxVars, wkVars, logVars>>
vars == <<coreVars, extVars>>

\* the WLANs, the threads that use them, and the update-loop threads that the
\* queue can start (one for each call of startupdateloop at most)
NumWlans == 2
NumCallers == 2
Wlans == 1..NumWlans
Callers == 1..NumCallers
Loops == 1..NumWlans
\* the thread identities, as the holders of a lock
LoopId(u) == NumCallers + u
NoCall == [pc |-> "idle", w |-> 0]
NoLoop == [pc |-> "new", idx |-> 0, start |-> <<>>, seen |-> {}]
\* send_objects has not run, and EbtablesQueue.__init__: no update thread, no
\* command and no WLAN pending, no WLAN using the queue
InitExt ==
    /\ links = {} /\ hooks = {} /\ nodes_lock = 0
    /\ opc = "idle" /\ oidx = 0 /\ nodes_data = <<>> /\ links_data = <<>> /\ out = <<>>
    /\ doupdateloop = FALSE /\ updatethread = 0 /\ updatelock = 0
    /\ updates = <<>>
    /\ last_update_time = [w \in Wlans |-> "none"]
    /\ net_up = [w \in Wlans |-> "new"]
    /\ cpc = [t \in Callers |-> NoCall]
    /\ upc = [u \in Loops |-> NoLoop]
    /\ ebtables_lock = 0 /\ ovs_lock = 0

\* "retries = 10"
Retries == 10
NoPoll == [sid |-> None, retries |-> 0, failed |-> FALSE]

\* ----------------------------------------------------------------- helpers
Min(a, b) == IF a < b THEN a ELSE b
Range(s) == {s[i] : i \in 1..Len(s)}
\* a remove that leaves the list as it is
RemoveNothing(s, x) == s
RECURSIVE RemoveFirst(_, _)
\* list.remove(x): the list without the first occurrence of x
RemoveFirst(s, x) ==
    IF s = <<>> THEN <<>>
    ELSE IF Head(s) = x THEN Tail(s)
    ELSE <<Head(s)>> \o RemoveFirst(Tail(s), x)
CountIn(s, P(_)) == Cardinality({i \in 1..Len(s) : P(s[i])})

NoMsg == [id |-> 0, type |-> "NONE", flags |-> {}, node |-> None, ntype |-> "none",
          etype |-> None, name |-> "none", time |-> FALSE, sids |-> <<>>,
          fwd |-> FALSE, len |-> 0, obj |-> "none", ctype |-> "MISSING",
          iface |-> NoIface, vals |-> "", opaque |-> "", dtypes |-> "none",
          num |-> None, sess |-> "none", exec |-> "none", gui |-> "none",
          node2 |-> None]

\* a message as the peer sends it; fwd: the node or link it names is assigned to
\* a remote server, so that the session's broker forwards it
Msg(type, flags, node, len) ==
    [NoMsg EXCEPT !.type = type, !.flags = flags, !.node = node, !.len = len]
NodeMsg(flags, node, ntype, fwd) ==
    [Msg("NODE", flags, node, 1) EXCEPT !.ntype = ntype, !.fwd = fwd]
EventMsg(flags, etype, node, name, time) ==
    [Msg("EVENT", flags, node, 1) EXCEPT !.etype = etype, !.name = name, !.time = time]
\* a SESSION message and the session ids it names, in order
SessionMsg(flags, sids) == [Msg("SESSION", flags, None, 1) EXCEPT !.sids = sids]
\* a CONFIG message: the object, the type, the node and the interface it names,
\* its data values ("" without the TLV)
ConfigMsg(obj, ctype, node, iface, vals) ==
    [Msg("CONFIG", {}, node, 1) EXCEPT !.obj = obj, !.ctype = ctype, !.iface = iface,
                                       !.vals = vals]
\* a CONFIG message for the broker: the session TLV ("none" without it) and the
\* servers "name:host:port,..."
BrokerMsg(ctype, sess, vals) ==
    [ConfigMsg(BrokerName, ctype, None, NoIface, vals) EXCEPT !.sess = sess]
\* a CONFIG message for the services: the opaque selector ("" without the TLV)
\* and the first of the data types ("none" without the TLV)
ServicesMsg(ctype, node, vals, opaque, dtypes) ==
    [ConfigMsg(ServicesName, ctype, node, NoIface, vals) EXCEPT
        !.opaque = opaque, !.dtypes = dtypes]
\* a LINK message: the numbers of its two nodes
LinkMsg(flags, n1, n2) == [Msg("LINK", flags, n1, 1) EXCEPT !.node2 = n2]
\* a REGISTER message: the execute-server TLV (a file to run, "none" without
\* it) and the GUI TLV ("none" without it)
RegisterMsg(flags, exec, gui) ==
    [Msg("REGISTER", flags, None, 1) EXCEPT !.exec = exec, !.gui = gui]
\* an EXECUTE message: the node, the execution number (None without the TLV),
\* whether it carries a time
ExecuteMsg(flags, node, num, time) ==
    [Msg("EXECUTE", flags, node, 1) EXCEPT !.num = num, !.time = time]

\* a frame on the wire: a header (complete or cut short) and the body bytes
\* that arrive before the peer closes
Frame(m, hdr, avail) == [msg |-> m, hdr |-> hdr, avail |-> avail]
WellFramed(m) == Frame(m, "full", m.len)
\* only the last frame of a stream can be cut short by the close
ScriptsOf(F, Last) ==
    {<<>>} \cup
    UNION {{s \in [1..n -> F \cup Last] : \A i \in 1..(n - 1) : s[i] \in F} :
           n \in 1..MaxMsgs}

\* ------------------------------------------------ the receive loop, handle()
InLoop(c) == rpc[c] \in {"hdr", "bodyTest", "bodyRecv", "decode", "queue", "mirror"}
InFinish(c) ==
    rpc[c] \in {"drain", "notify", "join", "detach", "remove", "check", "delete", "closed"}

\* leave the receive loop (a break, or an exception leaving handle()): the
\* finally clause of BaseRequestHandler.__init__ runs finish()
LeaveLoop(c, how) ==
    /\ rpc' = [rpc EXCEPT ![c] = "drain"]
    /\ rexit' = [rexit EXCEPT ![c] = how]

\* receive_message: the header
RecvHeader(c) ==
    /\ rpc[c] = "hdr"
    \* recv blocks while the peer is connected and sends nothing
    /\ rcount[c] >= Len(wire[c]) => closeKind[c] # "open"
    /\ IF rcount[c] >= Len(wire[c])
       THEN \* nothing more is sent: no bytes is EOFError, a reset is IOError
            /\ LeaveLoop(c, IF closeKind[c] = "fin" THEN "eof" ELSE "ioerror")
            /\ UNCHANGED <<rcount, rgot>>
       ELSE IF wire[c][rcount[c] + 1].hdr = "short"
       THEN \* "invalid message header size"
            /\ LeaveLoop(c, "ioerror")
            /\ rcount' = [rcount EXCEPT ![c] = @ + 1]
            /\ UNCHANGED rgot
       ELSE /\ rpc' = [rpc EXCEPT ![c] = "bodyTest"]
            /\ rcount' = [rcount EXCEPT ![c] = @ + 1]
            /\ rgot' = [rgot EXCEPT ![c] = 0]
            /\ UNCHANGED rexit
    /\ UNCHANGED <<sessVars, connVars, sockVars, extVars, wkVars, logVars,
                   rmsg, ridx, rsess, wait, jidx, rdel>>

CurFrame(c) == wire[c][rcount[c]]

\* receive_message: the test of "while len(data) < message_len"
BodyTest(c) ==
    /\ rpc[c] = "bodyTest"
    /\ rpc' = [rpc EXCEPT ![c] =
                  IF rgot[c] < CurFrame(c).msg.len THEN "bodyRecv" ELSE "decode"]
    /\ UNCHANGED <<sessVars, connVars, sockVars, extVars, wkVars, logVars,
                   rcount, rgot, rmsg, ridx, rsess, rexit, wait, jidx, rdel>>

\* what one recv(message_len - len(data)) can return: some of the bytes in
\* flight, or no bytes once the peer has closed
RecvSizes(c) ==
    LET inFlight == CurFrame(c).avail - rgot[c]
        asked == CurFrame(c).msg.len - rgot[c]
    IN  IF inFlight > 0 THEN 1..Min(asked, inFlight) ELSE {0}

\* receive_message: the body of the loop, data += recv(...)
BodyRecv(c) ==
    /\ rpc[c] = "bodyRecv"
    /\ IF CurFrame(c).avail - rgot[c] = 0 /\ closeKind[c] = "rst"
       THEN /\ LeaveLoop(c, "ioerror")
            /\ UNCHANGED rgot
       ELSE /\ \E k \in RecvSizes(c) : rgot' = [rgot EXCEPT ![c] = @ + k]
            /\ rpc' = [rpc EXCEPT ![c] = "bodyTest"]
            /\ UNCHANGED rexit
    /\ UNCHANGED <<sessVars, connVars, sockVars, extVars, wkVars, logVars,
                   rcount, rmsg, ridx, rsess, wait, jidx, rdel>>

\* receive_message: the message object; a type without a class gives a plain
\* CoreMessage carrying the type
Decode(c) ==
    /\ rpc[c] = "decode"
    /\ rmsg' = [rmsg EXCEPT ![c] = [CurFrame(c).msg EXCEPT !.id = rcount[c]]]
    /\ rpc' = [rpc EXCEPT ![c] = "queue"]
    /\ UNCHANGED <<sessVars, connVars, sockVars, extVars, wkVars, logVars,
                   rcount, rgot, ridx, rsess, rexit, wait, jidx, rdel>>

\* queue_message evaluates MessageTypes(message.message_type) for its log
\* line: the enumeration raises ValueError for a value that is none of its members
QueueRaises(m) == m.type \notin MessageTypes
\* the types handle() mirrors to the other clients
Mirrored(m) == m.type \in {"NODE", "LINK"}

\* handle(): queuedtimes = 0, queue_message, and the choice to mirror
QueueMessage(c) ==
    /\ rpc[c] = "queue"
    /\ IF QueueRaises(rmsg[c])
       THEN /\ LeaveLoop(c, "exception")
            /\ UNCHANGED <<queue, ridx, rsess>>
       ELSE /\ queue' = [queue EXCEPT ![c] = Append(@, rmsg[c])]
            /\ rpc' = [rpc EXCEPT ![c] = IF Mirrored(rmsg[c]) THEN "mirror" ELSE "hdr"]
            /\ ridx' = [ridx EXCEPT ![c] = 1]
            /\ rsess' = [rsess EXCEPT ![c] = csession[c]]
            /\ UNCHANGED rexit
    /\ UNCHANGED <<sessVars, csession, cmaster, done, nsr, lock, sockVars, extVars, wkVars,
                   logVars, rcount, rgot, rmsg, wait, jidx, rdel>>

\* the copy of message m of connection c that the receive loop sends to a peer
Copy(c, m) == [kind |-> "mirror", from |-> c, id |-> m.id, type |-> m.type,
               flags |-> m.flags, node |-> m.node]
\* whether the loop passes over this client without sending
SkipsClient(c, p) == p = c

\* handle(): one turn of "for client in self.session.broker.session_clients"
Mirror(c) ==
    /\ rpc[c] = "mirror"
    /\ IF ridx[c] > Len(clients[rsess[c]])
       THEN /\ rpc' = [rpc EXCEPT ![c] = "hdr"]
            /\ UNCHANGED <<ridx, rexit, sent>>
       ELSE LET p == clients[rsess[c]][ridx[c]]
            IN  IF SkipsClient(c, p)
                THEN /\ ridx' = [ridx EXCEPT ![c] = @ + 1]
                     /\ UNCHANGED <<rpc, rexit, sent>>
                ELSE IF sockOk[p]
                THEN /\ sent' = [sent EXCEPT ![p] = Append(@, Copy(c, rmsg[c]))]
                     /\ ridx' = [ridx EXCEPT ![c] = @ + 1]
                     /\ UNCHANGED <<rpc, rexit>>
                ELSE \* client.sendall raises: nothing in handle() catches it
                     /\ LeaveLoop(c, "exception")
                     /\ UNCHANGED <<ridx, sent>>
    /\ UNCHANGED <<sessVars, connVars, wire, extVars, closeKind, sockOk, wkVars, logVars,
                   rcount, rgot, rmsg, rsess, wait, jidx, rdel>>

Receive(c) ==
    \/ RecvHeader(c)
    \/ BodyTest(c)
    \/ BodyRecv(c)
    \/ Decode(c)
    \/ QueueMessage(c)
    \/ Mirror(c)

\* ---------------------------------------------------- the message handlers
\* What a handler does, as a function of the state it reads: whether it raised,
\* the replies it returned, the collaborator calls it made, the session state,
\* the node table and the pending status requests it leaves, and what it sent
\* on the socket itself.
Keep(c) ==
    [raised |-> FALSE, replies |-> <<>>, calls |-> <<>>,
     state |-> sstate[csession[c]], nodes |-> nodes[csession[c]],
     nsr |-> nsr[c], direct |-> <<>>, config |-> config[csession[c]],
     requeue |-> <<>>, none |-> FALSE]
Raise(R) == [R EXCEPT !.raised = TRUE, !.replies = <<>>]
Call(R, name, arg) == [R EXCEPT !.calls = Append(@, <<name, arg>>)]
Reply(type, flags, node) ==
    [kind |-> "reply", from |-> None, id |-> 0, type |-> type, flags |-> flags,
     node |-> node]

\* session.get_node raises KeyError for an id the session does not hold
HasNode(R, n) == n \in NodeIds /\ R.nodes[n] # "none"
\* session.add_node: the new node; a duplicate id raises
add_node(R, n, ntype) ==
    IF n \notin NodeIds \/ HasNode(R, n)
    THEN Raise(Call(R, "add_node", n))
    ELSE [Call(R, "add_node", n) EXCEPT !.nodes[n] = ntype]
\* session.clear: the session holds no object any more
clear(R) == [Call(R, "clear", None) EXCEPT !.nodes = [n \in NodeIds |-> "none"]]
\* session.set_state
set_state(R, state) == [Call(R, "set_state", state) EXCEPT !.state = state]

\* a send that leaves the node in node_status_request
send_node_emulation_id_kept(R, n) ==
    IF n \in R.nsr
    THEN [R EXCEPT !.direct = Append(@, Reply("NODE", {"ADD", "LOCAL"}, n))]
    ELSE R
\* send_node_emulation_id: an IOError of sendall is caught and logged
send_node_emulation_id(R, n) ==
    IF n \in R.nsr
    THEN [R EXCEPT !.direct = Append(@, Reply("NODE", {"ADD", "LOCAL"}, n)),
                   !.nsr = @ \ {n}]
    ELSE R

RECURSIVE SendEmulationIds(_, _)
\* "for _id in self.session.nodes: self.send_node_emulation_id(_id)"
SendEmulationIds(R, ids) ==
    IF ids = {} THEN R
    ELSE LET n == CHOOSE x \in ids : \A y \in ids : x <= y
         IN  SendEmulationIds(send_node_emulation_id(R, n), ids \ {n})

\* a guard that compares the flags with ADD|DELETE instead of testing both bits
NodeRejectedExact(m) == m.flags = {"ADD", "DELETE"}
\* the guard that rejects a NODE message
NodeRejected(m) == "ADD" \in m.flags /\ "DELETE" \in m.flags

\* handle_node_message, but for the deletion, which runs under the lock
handle_node_message(c, m) ==
    IF NodeRejected(m) THEN Keep(c)
    ELSE IF "ADD" \in m.flags
    THEN LET A == add_node(Keep(c), m.node, m.ntype)
             B == IF "STRING" \in m.flags THEN [A EXCEPT !.nsr = @ \cup {m.node}] ELSE A
         IN  IF A.raised THEN A
             ELSE IF B.state = RUNTIME_STATE
             THEN send_node_emulation_id(B, m.node)
             ELSE B
    ELSE Call(Keep(c), "update_node", m.node)

IsDelete(m) == m.type = "NODE" /\ "DELETE" \in m.flags /\ "ADD" \notin m.flags

\* the side effect of an event type, after the state is set
EventEffect(c, R, m) ==
    CASE m.etype = DEFINITION_STATE -> clear(R)
      [] m.etype = INSTANTIATION_STATE ->
            SendEmulationIds(Call(R, "instantiate", None),
                             {n \in NodeIds : R.nodes[n] # "none"})
      [] m.etype = RUNTIME_STATE ->
            IF smaster[csession[c]] THEN Call(R, "warning", RUNTIME_STATE)
            ELSE Call(R, "start_events", None)
      [] m.etype = DATACOLLECT_STATE -> Call(R, "data_collect", None)
      [] m.etype = SHUTDOWN_STATE ->
            IF smaster[csession[c]] THEN Call(R, "warning", SHUTDOWN_STATE) ELSE R
      [] m.etype \in {START, STOP, RESTART, PAUSE, RECONFIGURE} ->
            IF m.name = "service" THEN Call(R, "service_event", m.node)
            ELSE IF m.name = "mobility" THEN Call(R, "mobility_event", m.node)
            ELSE Call(R, "warning", m.etype)
      [] m.etype = FILE_OPEN -> Call(Call(R, "open_xml", None), "send_objects", None)
      [] m.etype = FILE_SAVE -> Call(R, "save_xml", None)
      [] m.etype = SCHEDULED ->
            IF ~m.time THEN Call(R, "warning", SCHEDULED)
            ELSE IF "ADD" \in m.flags THEN Call(R, "add_event", m.node)
            ELSE Raise(R)
      [] OTHER -> Call(R, "warning", m.etype)

\* an event handler that takes a phase only from the phase before it
handle_event_message_ordered(c, m) ==
    IF m.etype = None THEN Raise(Keep(c))
    ELSE IF m.etype <= SHUTDOWN_STATE /\ m.node # None
    THEN IF ~HasNode(Keep(c), m.node) THEN Raise(Keep(c))
         ELSE IF m.etype = INSTANTIATION_STATE /\ Keep(c).nodes[m.node] = "wlan"
         THEN Call(Keep(c), "start_mobility", m.node)
         ELSE Call(Keep(c), "warning", m.etype)
    ELSE IF m.etype <= SHUTDOWN_STATE /\ m.etype # Keep(c).state + 1
    THEN Call(Keep(c), "warning", m.etype)
    ELSE IF m.etype <= SHUTDOWN_STATE
    THEN EventEffect(c, set_state(Keep(c), m.etype), m)
    ELSE EventEffect(c, Keep(c), m)
\* an event handler that sets the state for every type that names no node
handle_event_message_anytype(c, m) ==
    IF m.etype = None THEN Raise(Keep(c))
    ELSE IF m.etype <= SHUTDOWN_STATE /\ m.node # None
    THEN IF ~HasNode(Keep(c), m.node) THEN Raise(Keep(c))
         ELSE IF m.etype = INSTANTIATION_STATE /\ Keep(c).nodes[m.node] = "wlan"
         THEN Call(Keep(c), "start_mobility", m.node)
         ELSE Call(Keep(c), "warning", m.etype)
    ELSE EventEffect(c, set_state(Keep(c), m.etype), m)
\* an event handler that does not look at the node number of a phase event
handle_event_message_nodeblind(c, m) ==
    IF m.etype = None THEN Raise(Keep(c))
    ELSE IF m.etype <= SHUTDOWN_STATE
    THEN EventEffect(c, set_state(Keep(c), m.etype), m)
    ELSE EventEffect(c, Keep(c), m)
\* handle_event_message
handle_event_message(c, m) ==
    IF m.etype = None THEN Raise(Keep(c))
    ELSE IF m.etype <= SHUTDOWN_STATE /\ m.node # None
    THEN IF ~HasNode(Keep(c), m.node) THEN Raise(Keep(c))
         ELSE IF m.etype = INSTANTIATION_STATE /\ Keep(c).nodes[m.node] = "wlan"
         THEN Call(Keep(c), "start_mobility", m.node)
         ELSE Call(Keep(c), "warning", m.etype)
    ELSE IF m.etype <= SHUTDOWN_STATE
    THEN EventEffect(c, set_state(Keep(c), m.etype), m)
    ELSE EventEffect(c, Keep(c), m)

\* handle_link_message: session.add_link, delete_link or update_link, which
\* look both nodes up (get_node raises KeyError for a node that is not there)
handle_link_message(c, m) ==
    LET name == IF "ADD" \in m.flags THEN "add_link"
                ELSE IF "DELETE" \in m.flags THEN "delete_link" ELSE "update_link"
        R == Call(Keep(c), name, m.node)
    IN  IF HasNode(R, m.node) /\ HasNode(R, m.node2) THEN R ELSE Raise(R)

\* handle_interface_message: "ignoring Interface message"
handle_interface_message(c, m) == Keep(c)

\* handle_session_message takes the loop over the named sessions for the ADD
\* and DELETE requests
IsSessionLoop(m) ==
    /\ m.type = "SESSION"
    /\ m.flags # {}
    /\ ~("STRING" \in m.flags /\ "ADD" \notin m.flags)
\* handle_session_message, but for that loop: no flags modify the named
\* sessions' names and files, a status request is answered with the session list
handle_session_message(c, m) ==
    IF m.flags = {} THEN Keep(c)
    ELSE [Keep(c) EXCEPT !.replies = <<Reply("SESSION", {}, None)>>]

\* ------------------------------------------ the listing of the services
\* A name is a letter (its rank in the alphabet) in one of the two cases; a
\* registered service has a name, a group and the custom_needed mark. A string
\* of a TLV is a sequence of tokens: names, literals, group ranges, separators.
Tok(k, ch, up, lit, lo, hi) ==
    [k |-> k, ch |-> ch, up |-> up, lit |-> lit, lo |-> lo, hi |-> hi]
NameTok(x) == Tok("name", x.ch, x.up, "", 0, 0)
LitTok(lit) == Tok("lit", 0, FALSE, lit, 0, 0)
Sep == Tok("sep", 0, FALSE, "|", 0, 0)
\* "%s:%s-%s" % (group, start_index, end_index)
GroupString(g, lo, hi) == <<Tok("range", g.ch, g.up, ":-", lo, hi)>>

\* str.lower(): the letter without its case
Lower(x) == x.ch
Keyed(x) == [key |-> Lower(x), val |-> x]
RECURSIVE Sorted(_)
\* sorted(iterable, key=...): a stable sort of [key, val] pairs by the key
Sorted(s) ==
    IF s = <<>> THEN <<>>
    ELSE LET r == Sorted(SubSeq(s, 1, Len(s) - 1))
             x == s[Len(s)]
             k == Cardinality({i \in 1..Len(r) : r[i].key <= x.key})
         IN  SubSeq(r, 1, k) \o <<x>> \o SubSeq(r, k + 1, Len(r))
Vals(s) == [i \in 1..Len(s) |-> s[i].val]

RECURSIVE Join(_)
\* "|".join(items)
Join(items) ==
    IF items = <<>> THEN <<>>
    ELSE IF Len(items) = 1 THEN items[1]
    ELSE items[1] \o <<Sep>> \o Join(Tail(items))
RECURSIVE Split(_)
\* str.split("|"): the pieces between the separators, one piece at least
Split(str) ==
    IF \A i \in 1..Len(str) : str[i] # Sep THEN <<str>>
    ELSE LET k == CHOOSE i \in 1..Len(str) :
                      str[i] = Sep /\ \A j \in 1..(i - 1) : str[j] # Sep
         IN  <<SubSeq(str, 1, k - 1)>> \o Split(SubSeq(str, k + 1, Len(str)))

\* an end index that forgets the "- 1"
EndIndexOpen(start, n) == start + n
\* "end_index = start_index + len(services) - 1"
EndIndex(start, n) == start + n - 1

\* the set of groups and group_map, built in the iteration order of the services
GroupsOf(svcs) == {svcs[i].group : i \in 1..Len(svcs)}
group_map(svcs, g) == SelectSeq(svcs, LAMBDA x : x.group = g)
\* the orders in which the set of groups can be iterated
SetOrders(S) ==
    {o \in [1..Cardinality(S) -> S] : \A i, j \in 1..Cardinality(S) : i # j => o[i] # o[j]}

RECURSIVE ListGroups(_, _, _, _)
\* the loop "for group in groups" of handle_config_services
ListGroups(gs, svcs, start_index, L) ==
    IF gs = <<>> THEN L
    ELSE LET group == Head(gs)
             sorted == Vals(Sorted([i \in 1..Len(group_map(svcs, group)) |->
                          [key |-> Lower(group_map(svcs, group)[i].name),
                           val |-> group_map(svcs, group)[i]]]))
             end_index == EndIndex(start_index, Len(sorted))
         IN  ListGroups(Tail(gs), svcs, start_index + Len(sorted),
                 [group_strings |-> Append(L.group_strings,
                                           GroupString(group, start_index, end_index)),
                  captions |-> L.captions \o
                      [i \in 1..Len(sorted) |-> <<NameTok(sorted[i].name)>>],
                  values |-> L.values \o [i \in 1..Len(sorted) |-> <<LitTok("0")>>],
                  possible_values |-> L.possible_values \o
                      [i \in 1..Len(sorted) |->
                          IF sorted[i].custom THEN <<LitTok("1")>> ELSE <<>>]])

\* the reply to a REQUEST for the services without an opaque selector, when
\* the set of groups iterates in the order o
Listing(svcs, o) ==
    LET groups == Vals(Sorted([i \in 1..Len(o) |-> Keyed(o[i])]))
        L == ListGroups(groups, svcs, 1,
                        [group_strings |-> <<>>, captions |-> <<>>, values |-> <<>>,
                         possible_values |-> <<>>])
    IN  [data_types |-> [i \in 1..Len(svcs) |-> "BOOL"],
         captions |-> Join(L.captions),
         possible_values |-> Join(L.possible_values),
         values |-> Join(L.values),
         groups |-> Join(L.group_strings)]

\* ------------------------------------------------- the CONFIG handlers
NoListing ==
    [data_types |-> <<>>, captions |-> <<>>, possible_values |-> <<>>,
     values |-> <<>>, groups |-> <<>>]
\* a CONFIG reply: the object and the node it names, the configuration value
\* it reports, the listing of the services when it is one
ConfigReply(obj, node, val, listing) ==
    [kind |-> "reply", from |-> None, id |-> 0, type |-> "CONFIG", flags |-> {},
     node |-> node, obj |-> obj, val |-> val, listing |-> listing]
\* "return replies" of a subsystem handler
Returns(R, replies) == [R EXCEPT !.replies = replies]
\* the order in which the set of groups iterates in this run of the daemon
GroupOrder(svcs) == CHOOSE o \in SetOrders(GroupsOf(svcs)) : TRUE

\* ConfigurableManager.config_reset(node_id): every node's configuration
\* without a node id, that node's with one
config_reset(store, node) ==
    [k \in ModelKeys |-> IF node = None \/ k = node THEN "default" ELSE store[k]]

\* a sentinel that resets the location only
handle_config_all_location(R, m) ==
    IF m.ctype = "RESET"
    THEN [Call(R, "location.reset", None) EXCEPT !.config.location = "default"]
    ELSE Raise(R)
handle_config_all(R, m) ==
    IF m.ctype = "RESET"
    THEN LET R1 == [Call(R, "location.reset", None) EXCEPT !.config.location = "default"]
             R2 == [Call(R1, "services.reset", None) EXCEPT !.config.services = "default"]
             R3 == [Call(R2, "mobility.config_reset", None) EXCEPT
                       !.config.mobility = config_reset(@, m.node)]
         IN  [Call(R3, "emane.config_reset", None) EXCEPT
                 !.config.emanemodels = config_reset(@, m.node),
                 !.config.emane = IF m.node = None THEN "default" ELSE @]
    ELSE Raise(R)

handle_config_session(R, m) ==
    IF m.ctype = "REQUEST"
    THEN Returns(R, <<ConfigReply(OptionsName, None, R.config.session, NoListing)>>)
    ELSE IF m.ctype # "RESET" /\ m.vals # ""
    THEN [R EXCEPT !.config.session = m.vals]
    ELSE R

\* a location handler that applies the values of an UPDATE only
handle_config_location_update(R, m) ==
    IF m.ctype = "RESET"
    THEN [Call(R, "location.reset", None) EXCEPT !.config.location = "default"]
    ELSE IF m.vals = "" \/ m.ctype # "UPDATE" THEN R
    ELSE [R EXCEPT !.config.location = m.vals]
handle_config_location(R, m) ==
    IF m.ctype = "RESET"
    THEN [Call(R, "location.reset", None) EXCEPT !.config.location = "default"]
    ELSE IF m.vals = "" THEN R
    ELSE [R EXCEPT !.config.location = m.vals]

handle_config_metadata(R, m) ==
    IF m.ctype = "REQUEST"
    THEN Returns(R, <<ConfigReply(MetadataName, m.node, R.config.metadata, NoListing)>>)
    ELSE IF m.ctype # "RESET" /\ m.vals # ""
    THEN [R EXCEPT !.config.metadata = m.vals]
    ELSE R

\* "values[0].split(',')" and, for each server, "server.split(':')": the items
\* of the server strings used here; a string without a separator is one item
ServerItems(vals) ==
    CASE vals = "s:h:1" -> << <<"s", "h", "1">> >>
      [] vals = "s::" -> << <<"s", "", "">> >>
      [] vals = "s:h:1,t:g:2" -> << <<"s", "h", "1">>, <<"t", "g", "2">> >>
      [] vals = "s:h:x" -> << <<"s", "h", "x">> >>
      [] vals = "s:h" -> << <<"s", "h">> >>
      [] OTHER -> << <<vals>> >>
\* int(): the number a string of digits writes; ValueError for another string
Digits == {"1", "2"}
IntOf(str) == IF str = "1" THEN 1 ELSE 2
\* "session_id.split('|')[0]"
FirstId(sess) == IF sess = "2|1" THEN "2" ELSE sess

\* a broker handler that takes no session id from the message
FromMasterNever(m) == FALSE
\* "if session_id is not None"
FromMaster(m) == m.sess # "none"

RECURSIVE AddServers(_, _, _)
\* "for server in server_list": the unpacking of fewer than three items and the
\* int() of a port or of a session id that is no number raise ValueError, and
\* what the servers before did stays done
AddServers(R, m, list) ==
    IF list = <<>> THEN R
    ELSE LET items == Head(list)
         IN  IF Len(items) < 3 THEN Raise(R)
             ELSE IF items[3] # "" /\ items[3] \notin Digits THEN Raise(R)
             ELSE IF FromMaster(m) /\ FirstId(m.sess) \notin Digits THEN Raise(R)
             ELSE
             LET host == IF items[2] = "" THEN "none" ELSE items[2]
                 port == IF items[3] = "" THEN None ELSE IntOf(items[3])
                 S == IF FromMaster(m)
                      THEN [R EXCEPT !.config.session_id_master = IntOf(FirstId(m.sess)),
                                     !.config.myip = host]
                      ELSE R
                 server == IF FromMaster(m)
                           THEN [name |-> items[1], host |-> "none", port |-> None]
                           ELSE [name |-> items[1], host |-> host, port |-> port]
                 T == [Call(Call(S, "addserver", server.port), "setupserver", None) EXCEPT
                          !.config.servers = @ \cup {server}]
             IN  AddServers(T, m, Tail(list))

handle_config_broker(R, m) ==
    IF m.ctype \notin {"REQUEST", "RESET"} /\ m.vals # ""
    THEN AddServers(R, m, ServerItems(m.vals))
    ELSE R

\* the opaque selector names a service of the node, never a file of it
handle_config_services(R, m) ==
    IF m.ctype = "REQUEST"
    THEN IF m.opaque = ""
         THEN Returns(R, <<ConfigReply(ServicesName, m.node, "",
                                       Listing(services, GroupOrder(services)))>>)
         ELSE IF m.node = None THEN R
         ELSE IF ~HasNode(R, m.node) THEN Raise(Call(R, "get_node", m.node))
         ELSE Returns(R, <<ConfigReply(ServicesName, m.node, R.config.services, NoListing)>>)
    ELSE IF m.ctype = "RESET"
    THEN [Call(R, "services.reset", None) EXCEPT !.config.services = "default"]
    ELSE IF m.vals = "" THEN R
    ELSE IF m.opaque = ""
    THEN IF m.dtypes # "string"
         THEN [R EXCEPT !.none = TRUE]
         ELSE [R EXCEPT !.config.services = m.vals]
    ELSE IF m.node # None
    THEN [Call(R, "set_service", m.node) EXCEPT !.config.services = m.vals]
    ELSE R

handle_config_mobility(R, m) ==
    IF m.ctype = "RESET"
    THEN [Call(R, "mobility.reset", None) EXCEPT !.config.mobility = config_reset(@, None)]
    ELSE R

\* a key that leaves the interface out
ModelKeyNodeOnly(node, iface) == node
\* "if interface_id is not None: node_id = node_id * 1000 + interface_id"
ModelKey(node, iface) == IF iface # NoIface THEN node * KeyFactor + iface ELSE node
\* None * 1000 raises TypeError
KeyRaises(m) == m.iface # NoIface /\ m.node = None

handle_config_mobility_models(R, m) ==
    IF KeyRaises(m) THEN Raise(R)
    ELSE LET node_id == ModelKey(m.node, m.iface)
         IN  IF m.ctype = "REQUEST"
             THEN Returns(R, <<ConfigReply(m.obj, node_id, R.config.mobility[node_id],
                                           NoListing)>>)
             ELSE IF m.ctype # "RESET"
             THEN [Call(R, "mobility.set_model_config", node_id) EXCEPT
                      !.config.mobility[node_id] = IF m.vals = "" THEN "default" ELSE m.vals]
             ELSE R

handle_config_emane(R, m, master) ==
    IF KeyRaises(m) THEN Raise(R)
    ELSE LET node_id == ModelKey(m.node, m.iface)
             A == IF m.ctype = "REQUEST"
                  THEN Returns(R, <<ConfigReply(EmaneName, node_id, R.config.emane,
                                                NoListing)>>)
                  ELSE IF m.ctype # "RESET" /\ m.vals # ""
                  THEN [Call(R, "emane.set_configs", None) EXCEPT !.config.emane = m.vals]
                  ELSE R
         IN  IF m.ctype = "UPDATE" /\ ~master THEN Call(A, "instantiate", None) ELSE A

handle_config_emane_models(R, m) ==
    IF KeyRaises(m) THEN Raise(R)
    ELSE LET node_id == ModelKey(m.node, m.iface)
         IN  IF m.ctype = "REQUEST"
             THEN Returns(R, <<ConfigReply(m.obj, node_id, R.config.emanemodels[node_id],
                                           NoListing)>>)
             ELSE IF m.ctype # "RESET"
             THEN [Call(R, "emane.set_model_config", node_id) EXCEPT
                      !.config.emanemodels[node_id] =
                          IF m.vals = "" THEN "default" ELSE m.vals]
             ELSE R

\* the entry of a subsystem handler, noted among the calls
Enter(R, name) == Call(R, name, None)
\* a router that lets an unknown object pass
UnroutedIgnored(R, m) == R
\* "raise Exception("no handler for configuration: %s", config_data.object)"
Unrouted(R, m) == Raise(R)
\* the chain of "if config_data.object == ..." of handle_config_message; the
\* result of the location, broker and mobility handlers is not assigned
Route(R, m, master) ==
    IF m.obj = "all" THEN handle_config_all(Enter(R, "handle_config_all"), m)
    ELSE IF m.obj = OptionsName
    THEN handle_config_session(Enter(R, "handle_config_session"), m)
    ELSE IF m.obj = LocationName
    THEN Returns(handle_config_location(Enter(R, "handle_config_location"), m), <<>>)
    ELSE IF m.obj = MetadataName
    THEN handle_config_metadata(Enter(R, "handle_config_metadata"), m)
    ELSE IF m.obj = BrokerName
    THEN Returns(handle_config_broker(Enter(R, "handle_config_broker"), m), <<>>)
    ELSE IF m.obj = ServicesName
    THEN handle_config_services(Enter(R, "handle_config_services"), m)
    ELSE IF m.obj = MobilityName
    THEN Returns(handle_config_mobility(Enter(R, "handle_config_mobility"), m), <<>>)
    ELSE IF m.obj \in MobilityModels
    THEN handle_config_mobility_models(Enter(R, "handle_config_mobility_models"), m)
    ELSE IF m.obj = EmaneName
    THEN handle_config_emane(Enter(R, "handle_config_emane"), m, master)
    ELSE IF m.obj \in EmaneModels
    THEN handle_config_emane_models(Enter(R, "handle_config_emane_models"), m)
    ELSE Unrouted(R, m)

RECURSIVE Broadcasts(_, _)
\* handle_broadcast_config for each reply: a sendall on this connection's socket
handle_broadcast_config(R, reply) == [R EXCEPT !.direct = Append(@, reply)]
Broadcasts(R, replies) ==
    IF replies = <<>> THEN R
    ELSE Broadcasts(handle_broadcast_config(R, Head(replies)), Tail(replies))

\* a handler that returns the replies it has broadcast
ConfigReturnReplies(replies) == replies
\* "return []"
ConfigReturn(replies) == <<>>

handle_config_message(c, m) ==
    IF m.ctype \notin ConfigFlags THEN Raise(Keep(c))
    ELSE LET S == Route(Keep(c), m, smaster[csession[c]])
         IN  IF S.raised THEN S
             \* "for reply in replies" over None raises TypeError
             ELSE IF S.none THEN Raise(S)
             ELSE Returns(Broadcasts(S, S.replies), ConfigReturn(S.replies))

\* ------------------------------------------------- the EXECUTE handler
\* a check that lets a message without a node pass
MissingNodeNever(m) == FALSE
\* "if node_num is None and not message.flags & MessageFlags.LOCAL.value"
MissingNode(m) == m.node = None /\ "LOCAL" \notin m.flags
\* a retry that does not look at the LOCAL flag, and one that never retries
RequeuesAlways(m) == TRUE
RequeuesNever(m) == FALSE
\* "if not message.flags & MessageFlags.LOCAL.value" of the except clause
Requeues(m) == "LOCAL" \notin m.flags

handle_execute_message(c, m) ==
    LET K == Keep(c)
        local == "LOCAL" \in m.flags
    IN  IF MissingNode(m) THEN Raise(K)
        ELSE IF m.num = None THEN Raise(K)
        ELSE IF m.time THEN Call(K, "add_event", m.node)
        ELSE IF ~HasNode(K, m.node)
        \* get_node raises KeyError: "time.sleep(0.125); self.queue_message(message)"
        THEN IF Requeues(m) THEN [K EXCEPT !.requeue = <<m>>] ELSE K
        ELSE IF "TTY" \in m.flags
        THEN Returns(Call(K, "termcmdstring", m.node), <<Reply("EXECUTE", {"TTY"}, m.node)>>)
        ELSE IF "STRING" \in m.flags \/ "TEXT" \in m.flags
        THEN Returns(Call(K, IF local THEN "utils.cmd_output" ELSE "node.cmd_output", m.node),
                     <<Reply("EXECUTE", {}, m.node)>>)
        ELSE Call(K, IF local THEN "utils.mute_detach" ELSE "node.cmd", m.node)

\* the handler the dispatch table gives for the message
Handler(c, m) ==
    CASE m.type = "NODE" -> handle_node_message(c, m)
      [] m.type = "LINK" -> handle_link_message(c, m)
      [] m.type = "EVENT" -> handle_event_message(c, m)
      [] m.type = "CONFIG" -> handle_config_message(c, m)
      [] m.type = "EXECUTE" -> handle_execute_message(c, m)
      [] m.type = "SESSION" -> handle_session_message(c, m)
      [] OTHER -> handle_interface_message(c, m)

\* --------------------------------------------- the workers, handler_thread()
\* session.broker.handle_message: true when the broker forwarded the message
BrokerHandles(m) == m.fwd
\* a dispatch that does not ask the broker
NotLocalNever(c, m) == FALSE
\* "if self.session and self.session.broker.handle_message(message): return"
NotLocal(c, m) == csession[c] # None /\ BrokerHandles(m)
\* a deletion that does not take the lock
LockFreeAlways(c) == TRUE
LockFree(c) == lock[c] = None

Entry(c, w, m, fwd, invoked, R) ==
    [c |-> c, w |-> w, id |-> m.id, type |-> m.type, flags |-> m.flags,
     node |-> m.node, etype |-> m.etype, fwd |-> fwd, handler |-> invoked,
     raised |-> R.raised, replies |-> R.replies, calls |-> R.calls,
     direct |-> R.direct, before |-> sstate[csession[c]], after |-> R.state,
     master |-> smaster[csession[c]], had |-> HasNode(Keep(c), m.node),
     same |-> R.nsr = nsr[c] /\ R.nodes = nodes[csession[c]],
     msg |-> m, cfgbefore |-> config[csession[c]], cfgafter |-> R.config,
     requeue |-> R.requeue,
     kind |-> IF m.node \in NodeIds THEN nodes[csession[c]][m.node] ELSE "none",
     nsrbefore |-> nsr[c], nsrafter |-> R.nsr,
     held |-> {n \in NodeIds : R.nodes[n] # "none"}]

\* a handle_message without the try: what the handler raises ends the thread
AfterHandlingUncaught(R) == IF R.raised THEN "dead" ELSE "test"
\* where the worker goes after a handling: the bare "except:" of handle_message
\* logs whatever the handler raised, and the loop of handler_thread goes on
AfterHandling(R) == "test"

\* session_message() of a daemon without a session: None
NoReply == Reply("NONE", {}, None)
RECURSIVE Dispatched(_)
\* dispatch_replies: unpack_header of a reply that is None raises before that
\* reply and those after it are sent (handle_message catches and logs)
Dispatched(replies) ==
    IF replies = <<>> \/ Head(replies) = NoReply THEN <<>>
    ELSE <<Head(replies)>> \o Dispatched(Tail(replies))

\* what the handling of one message leaves: the handler's effects, the replies
\* dispatched (a failing sendall is caught and logged), the record of it
Apply(c, w, m, fwd, invoked, R) ==
    /\ sstate' = [sstate EXCEPT ![csession[c]] = R.state]
    /\ nodes' = [nodes EXCEPT ![csession[c]] = R.nodes]
    /\ config' = [config EXCEPT ![csession[c]] = R.config]
    /\ UNCHANGED services
    /\ nsr' = [nsr EXCEPT ![c] = R.nsr]
    /\ calls' = calls \o R.calls
    /\ sent' = [sent EXCEPT ![c] = IF sockOk[c] THEN @ \o R.direct \o Dispatched(R.replies)
                                    ELSE @]
    \* the history keeps the first MaxLog handlings
    /\ hlog' = IF Len(hlog) < MaxLog THEN Append(hlog, Entry(c, w, m, fwd, invoked, R))
               ELSE hlog
    /\ wpc' = [wpc EXCEPT ![c][w] = AfterHandling(R)]

\* "while not self.done"
WorkerTest(c, w) ==
    /\ wpc[c][w] = "test"
    /\ wpc' = [wpc EXCEPT ![c][w] = IF done[c] THEN "exit" ELSE "get"]
    /\ UNCHANGED <<sessVars, connVars, sockVars, extVars, rxVars, wmsg, wres, widx, poll, logVars>>

\* a worker that takes the message that was queued last
WorkerGetLast(c, w) ==
    /\ wpc[c][w] = "get"
    /\ IF queue[c] # <<>>
       THEN /\ wmsg' = [wmsg EXCEPT ![c][w] = queue[c][Len(queue[c])]]
            /\ queue' = [queue EXCEPT ![c] = SubSeq(@, 1, Len(@) - 1)]
            /\ wpc' = [wpc EXCEPT ![c][w] = "handle"]
       ELSE /\ wpc' = [wpc EXCEPT ![c][w] = "test"]
            /\ UNCHANGED <<wmsg, queue>>
    /\ UNCHANGED <<sessVars, csession, cmaster, done, nsr, lock, sockVars, extVars, rxVars,
                   wres, widx, poll, logVars>>
\* "message = self.message_queue.get(timeout=1)", Empty when nothing came
WorkerGet(c, w) ==
    /\ wpc[c][w] = "get"
    /\ IF queue[c] # <<>>
       THEN /\ wmsg' = [wmsg EXCEPT ![c][w] = Head(queue[c])]
            /\ queue' = [queue EXCEPT ![c] = Tail(@)]
            /\ wpc' = [wpc EXCEPT ![c][w] = "handle"]
       ELSE /\ wpc' = [wpc EXCEPT ![c][w] = "test"]
            /\ UNCHANGED <<wmsg, queue>>
    /\ UNCHANGED <<sessVars, csession, cmaster, done, nsr, lock, sockVars, extVars, rxVars,
                   wres, widx, poll, logVars>>

\* handle_message; the deletion of a node stops at the lock and goes on in
\* DeleteNode, the ADD and DELETE of sessions go on in the steps of SessionLoop
HandleMessage(c, w) ==
    /\ wpc[c][w] = "handle"
    /\ LET m == wmsg[c][w]
       IN  IF NotLocal(c, m)
           THEN /\ Apply(c, w, m, TRUE, FALSE, Keep(c))
                /\ UNCHANGED <<lock, wres, widx, poll, queue>>
           ELSE IF m.type \notin message_handlers
           THEN /\ Apply(c, w, m, FALSE, FALSE, Keep(c))
                /\ UNCHANGED <<lock, wres, widx, poll, queue>>
           ELSE IF IsDelete(m)
           THEN \* "with self._shutdown_lock:", and delete_node looks the node up
                /\ LockFree(c)
                /\ lock' = [lock EXCEPT ![c] = w]
                /\ wres' = [wres EXCEPT ![c][w] = HasNode(Keep(c), m.node)]
                /\ wpc' = [wpc EXCEPT ![c][w] = "delete"]
                /\ UNCHANGED <<sstate, nodes, config, services, nsr, calls, sent, hlog,
                               widx, poll, queue>>
           ELSE IF m.type = "REGISTER"
           THEN \* handle_register_message goes on in Register
                /\ wpc' = [wpc EXCEPT ![c][w] = "register"]
                /\ UNCHANGED <<sstate, nodes, config, services, nsr, calls, sent, hlog,
                               lock, wres, widx, poll, queue>>
           ELSE IF IsSessionLoop(m)
           THEN /\ wpc' = [wpc EXCEPT ![c][w] = "sloop"]
                /\ widx' = [widx EXCEPT ![c][w] = 1] /\ UNCHANGED poll
                /\ UNCHANGED <<sstate, nodes, config, services, nsr, calls, sent, hlog,
                               lock, wres, queue>>
           ELSE /\ Apply(c, w, m, FALSE, TRUE, Handler(c, m))
                \* what the handler put back on the queue
                /\ queue' = [queue EXCEPT ![c] = @ \o Handler(c, m).requeue]
                /\ UNCHANGED <<lock, wres, widx, poll>>
    /\ UNCHANGED <<sessions, smaster, clients, handlers, csession, cmaster, done,
                   wire, extVars, closeKind, sockOk, rxVars, wmsg>>

\* the removal notification of handle_node_message
Removal(m, result) ==
    IF result /\ "STRING" \in m.flags
    THEN <<Reply("NODE", {"DELETE", "LOCAL"}, m.node)>>
    ELSE <<>>

\* handle_node_message under the lock: delete_node removes the node it found,
\* the notification is built, the lock is released, the replies are dispatched
DeleteNode(c, w) ==
    /\ wpc[c][w] = "delete"
    /\ LET m == wmsg[c][w]
           found == wres[c][w]
           \* removing a node that is gone by now is the double delete
           K == Call(Keep(c), "delete_node", m.node)
           R0 == IF found /\ ~HasNode(K, m.node) THEN Raise(K)
                 ELSE IF found THEN [Call(K, "removed", m.node) EXCEPT !.nodes[m.node] = "none"]
                 ELSE K
           R == IF R0.raised THEN R0 ELSE [R0 EXCEPT !.replies = Removal(m, found)]
       IN  Apply(c, w, m, FALSE, TRUE, R)
    /\ lock' = [lock EXCEPT ![c] = None]
    /\ UNCHANGED <<sessions, smaster, clients, handlers, csession, cmaster, done,
                   queue, wire, extVars, closeKind, sockOk, rxVars, wmsg, wres, widx, poll>>

Work(c, w) ==
    \/ WorkerTest(c, w)
    \/ WorkerGet(c, w)
    \/ HandleMessage(c, w)
    \/ DeleteNode(c, w)

\* ------------------------------------- attaching to and leaving a session
\* session.is_active: the emulation runs or its data is being collected
is_active(s) == sstate[s] \in {RUNTIME_STATE, DATACOLLECT_STATE}
\* "if not self.session.broker.session_clients and not self.session.is_active()"
LastOut(s) == clients[s] = <<>> /\ ~is_active(s)
\* coreemu.delete_session: the session leaves the registry
delete_session(s) == sessions \ {s}
\* the record of a deletion made by a detach: the session as it was just before
Deleted(s) == <<"detach_delete", [id |-> s, left |-> clients[s], active |-> is_active(s)]>>

\* __init__ starts the workers; handle() creates the session named after the
\* peer's port, attaches the connection to it and sets its initial state
Connect(c) ==
    /\ rpc[c] = "idle"
    /\ sessions' = sessions \cup {c}
    /\ csession' = [csession EXCEPT ![c] = c]
    /\ smaster' = [smaster EXCEPT ![c] = cmaster[c]]
    /\ clients' = [clients EXCEPT ![c] = <<c>>]
    /\ handlers' = [handlers EXCEPT ![c] = <<c>>]
    /\ sstate' = [sstate EXCEPT ![c] = DEFINITION_STATE]
    /\ nodes' = [nodes EXCEPT ![c] = [n \in NodeIds |-> "none"]]
    /\ config' = [config EXCEPT ![c] = DefaultConfig]
    /\ UNCHANGED services
    /\ wpc' = [wpc EXCEPT ![c] = [w \in Workers |-> "test"]]
    /\ rpc' = [rpc EXCEPT ![c] = "hdr"]
    /\ UNCHANGED <<cmaster, done, queue, nsr, lock, sockVars, extVars, rcount, rgot, rmsg, ridx,
                   rsess, rexit, wait, jidx, rdel, wmsg, wres, widx, poll, logVars>>

\* handle_session_message: "for session_id in session_ids", the lookup in the
\* registry and the choice by the flags; the handling ends when the ids are used up
SessionNext(c, w) ==
    /\ wpc[c][w] = "sloop"
    /\ LET m == wmsg[c][w]
           i == widx[c][w]
       IN  IF i > Len(m.sids)
           THEN /\ Apply(c, w, m, FALSE, TRUE, Keep(c))
                /\ UNCHANGED <<sessions, widx, poll>>
           ELSE IF m.sids[i] \notin sessions
           THEN \* "session %s not found": continue
                /\ widx' = [widx EXCEPT ![c][w] = i + 1] /\ UNCHANGED poll
                /\ UNCHANGED <<sessions, sstate, nodes, config, services, nsr, calls, sent, hlog, wpc>>
           ELSE IF "ADD" \in m.flags
           THEN /\ wpc' = [wpc EXCEPT ![c][w] = "sdetach"]
                /\ UNCHANGED <<sessions, sstate, nodes, config, services, nsr, calls, sent, hlog, widx, poll>>
           ELSE IF "DELETE" \in m.flags
           THEN /\ sessions' = delete_session(m.sids[i])
                /\ calls' = Append(calls, <<"delete_session", m.sids[i]>>)
                /\ widx' = [widx EXCEPT ![c][w] = i + 1] /\ UNCHANGED poll
                /\ UNCHANGED <<sstate, nodes, config, services, nsr, sent, hlog, wpc>>
           ELSE \* "unhandled session flags"
                /\ widx' = [widx EXCEPT ![c][w] = i + 1] /\ UNCHANGED poll
                /\ UNCHANGED <<sessions, sstate, nodes, config, services, nsr, calls, sent, hlog, wpc>>
    /\ UNCHANGED <<smaster, clients, handlers, csession, cmaster, done, queue, lock,
                   wire, extVars, closeKind, sockOk, rxVars, wmsg, wres>>

\* the join: self.remove_session_handlers(); list.remove raises ValueError for
\* a callback that is not in the list, which ends the handling
SessionDetachHandlers(c, w) ==
    /\ wpc[c][w] = "sdetach"
    /\ IF c \in Range(handlers[csession[c]])
       THEN /\ handlers' = [handlers EXCEPT ![csession[c]] = RemoveFirst(@, c)]
            /\ wpc' = [wpc EXCEPT ![c][w] = "sremove"]
            /\ UNCHANGED <<sstate, nodes, config, services, nsr, calls, sent, hlog>>
       ELSE /\ Apply(c, w, wmsg[c][w], FALSE, TRUE, Raise(Keep(c)))
            /\ UNCHANGED handlers
    /\ UNCHANGED <<sessions, smaster, clients, csession, cmaster, done, queue, lock,
                   wire, extVars, closeKind, sockOk, rxVars, wmsg, wres, widx, poll>>

\* the join: self.session.broker.session_clients.remove(self)
SessionDetachClient(c, w) ==
    /\ wpc[c][w] = "sremove"
    /\ IF c \in Range(clients[csession[c]])
       THEN /\ clients' = [clients EXCEPT ![csession[c]] = RemoveFirst(@, c)]
            /\ wpc' = [wpc EXCEPT ![c][w] = "scheck"]
            /\ UNCHANGED <<sstate, nodes, config, services, nsr, calls, sent, hlog>>
       ELSE /\ Apply(c, w, wmsg[c][w], FALSE, TRUE, Raise(Keep(c)))
            /\ UNCHANGED clients
    /\ UNCHANGED <<sessions, smaster, handlers, csession, cmaster, done, queue, lock,
                   wire, extVars, closeKind, sockOk, rxVars, wmsg, wres, widx, poll>>

\* the join: the test of "no client left and not active"
SessionCheck(c, w) ==
    /\ wpc[c][w] = "scheck"
    /\ wres' = [wres EXCEPT ![c][w] = LastOut(csession[c])]
    /\ wpc' = [wpc EXCEPT ![c][w] = IF LastOut(csession[c]) THEN "sdelete" ELSE "sattach"]
    /\ UNCHANGED <<sessVars, connVars, sockVars, extVars, rxVars, wmsg, widx, poll, logVars>>

\* the join: self.coreemu.delete_session(self.session.id)
SessionDelete(c, w) ==
    /\ wpc[c][w] = "sdelete"
    /\ sessions' = delete_session(csession[c])
    /\ calls' = Append(calls, Deleted(csession[c]))
    /\ wpc' = [wpc EXCEPT ![c][w] = "sattach"]
    /\ UNCHANGED <<sstate, smaster, nodes, config, services, clients, handlers, connVars, sockVars, extVars,
                   rxVars, wmsg, wres, widx, poll, hlog>>

\* the join: self.session = session, the master mark, the client list, the
\* broadcast handlers, and send_objects for the STRING flag; then the next id
SessionAttach(c, w) ==
    /\ wpc[c][w] = "sattach"
    /\ LET m == wmsg[c][w]
           s == m.sids[widx[c][w]]
       IN  /\ csession' = [csession EXCEPT ![c] = s]
           /\ smaster' = IF cmaster[c] THEN [smaster EXCEPT ![s] = TRUE] ELSE smaster
           /\ clients' = [clients EXCEPT ![s] = Append(@, c)]
           /\ handlers' = [handlers EXCEPT ![s] = Append(@, c)]
           /\ calls' = IF "STRING" \in m.flags THEN Append(calls, <<"send_objects", s>>)
                       ELSE calls
    /\ widx' = [widx EXCEPT ![c][w] = @ + 1] /\ UNCHANGED poll
    /\ wpc' = [wpc EXCEPT ![c][w] = "sloop"]
    /\ UNCHANGED <<sessions, sstate, nodes, config, services, cmaster, done, queue, nsr, lock, sockVars, extVars,
                   rxVars, wmsg, wres, hlog>>

SessionLoop(c, w) ==
    \/ SessionNext(c, w)
    \/ SessionDetachHandlers(c, w)
    \/ SessionDetachClient(c, w)
    \/ SessionCheck(c, w)
    \/ SessionDelete(c, w)
    \/ SessionAttach(c, w)

\* ------------------------------------------------ handle_register_message
\* register(): the capabilities of the daemon, a REGISTER message with ADD
register == Reply("REGISTER", {"ADD"}, None)
\* session_message(): the sessions of the registry, None when it holds none
session_message == IF sessions = {} THEN NoReply ELSE Reply("SESSION", {}, None)
\* the reply that names the session a file was executed as
Executed(sid) == Reply("REGISTER", {}, sid)
\* the reply made from an exception
ExceptionReply == Reply("EXCEPTION", {}, None)
\* "os.path.splitext(file_name)[1].lower() == '.xml'"
IsXml(file) == file = "f.xml"
\* coreemu.create_session: the lowest id the registry does not hold
NewId == CHOOSE s \in SessIds \ sessions : \A t \in SessIds \ sessions : s <= t
\* "for _id in self.coreemu.sessions: if self in session.broker.session_clients"
Containing(c) == {s \in sessions : c \in Range(clients[s])}
FirstContaining(c) == CHOOSE s \in Containing(c) : \A t \in Containing(c) : s <= t

\* "if retries <= 0: ... return replies", and "except KeyError: ... return replies"
GivesUpReply == <<>>

\* a session enters the registry: create_session(master=False)
Created(s, st) ==
    /\ sessions' = sessions \cup {s}
    /\ sstate' = [sstate EXCEPT ![s] = st]
    /\ smaster' = [smaster EXCEPT ![s] = FALSE]
    /\ nodes' = [nodes EXCEPT ![s] = [n \in NodeIds |-> "none"]]
    /\ config' = [config EXCEPT ![s] = DefaultConfig]
    /\ clients' = [clients EXCEPT ![s] = <<>>]
    /\ handlers' = [handlers EXCEPT ![s] = <<>>]

\* the execute-server TLV: the XML file is opened in a new session (open_xml
\* raises, and the session is deleted, or it returns with the session started),
\* or the script is started in a thread and, a quarter of a second later, has
\* created its session or has not
Launch(c, w) ==
    /\ wpc[c][w] = "register"
    /\ wmsg[c][w].exec # "none"
    /\ \/ /\ IsXml(wmsg[c][w].exec)
          /\ poll' = [poll EXCEPT ![c][w] = [sid |-> None, retries |-> Retries, failed |-> TRUE]]
          /\ calls' = calls \o << <<"create_session", None>>, <<"delete_session", None>> >>
          /\ UNCHANGED sessVars
       \/ /\ SessIds \ sessions # {}
          /\ \E st \in IF IsXml(wmsg[c][w].exec) THEN {INSTANTIATION_STATE, RUNTIME_STATE}
                        ELSE {DEFINITION_STATE} :
                Created(NewId, st)
          /\ poll' = [poll EXCEPT ![c][w] = [sid |-> NewId, retries |-> Retries, failed |-> FALSE]]
          /\ calls' = Append(calls, <<"create_session", NewId>>)
          /\ UNCHANGED services
       \/ /\ ~IsXml(wmsg[c][w].exec)
          /\ poll' = [poll EXCEPT ![c][w] = [sid |-> None, retries |-> Retries, failed |-> FALSE]]
          /\ UNCHANGED <<sessVars, calls>>
    /\ wpc' = [wpc EXCEPT ![c][w] = "poll"]
    /\ UNCHANGED <<connVars, sockVars, extVars, rxVars, wmsg, wres, widx, hlog>>

\* the rest of the execute-server branch: the EXCEPTION reply of "except
\* Exception", nothing without the STRING flag, and with it one turn of "while
\* session.state != RUNTIME_STATE" or the reply that names the session
Poll(c, w) ==
    /\ wpc[c][w] = "poll"
    /\ LET m == wmsg[c][w]
           p == poll[c][w]
           Done(replies) ==
               /\ Apply(c, w, m, FALSE, TRUE, Returns(Keep(c), replies))
               /\ poll' = [poll EXCEPT ![c][w] = NoPoll]
       IN  IF p.failed THEN Done(<<ExceptionReply>>)
           ELSE IF "STRING" \notin m.flags THEN Done(<<>>)
           ELSE IF p.sid = None THEN Done(GivesUpReply)
           ELSE IF sstate[p.sid] = RUNTIME_STATE THEN Done(<<Executed(p.sid)>>)
           ELSE IF p.retries - 1 <= 0 THEN Done(GivesUpReply)
           ELSE /\ poll' = [poll EXCEPT ![c][w].retries = @ - 1]
                /\ UNCHANGED <<sstate, nodes, config, services, nsr, calls, sent, hlog, wpc>>
    /\ UNCHANGED <<sessions, smaster, clients, handlers, csession, cmaster, done,
                   queue, lock, wire, extVars, closeKind, sockOk, rxVars, wmsg, wres, widx>>

\* the GUI TLV: the connection and the first session of the registry that holds
\* it become master; the replies are register() and session_message()
RegisterGui(c, w) ==
    /\ wpc[c][w] = "register"
    /\ wmsg[c][w].exec = "none"
    /\ IF wmsg[c][w].gui = "none"
       THEN /\ Apply(c, w, wmsg[c][w], FALSE, TRUE, Keep(c))
            /\ UNCHANGED <<cmaster, smaster>>
       ELSE /\ cmaster' = [cmaster EXCEPT ![c] = TRUE]
            /\ smaster' = IF Containing(c) = {} THEN smaster
                          ELSE [smaster EXCEPT ![FirstContaining(c)] = TRUE]
            /\ Apply(c, w, wmsg[c][w], FALSE, TRUE,
                     Returns(Keep(c), <<register, session_message>>))
    /\ UNCHANGED <<sessions, clients, handlers, csession, done, queue, lock, wire, extVars,
                   closeKind, sockOk, rxVars, wmsg, wres, widx, poll>>

\* the script of an executed file takes its session one phase further
ScriptRun(s) ==
    /\ s \in sessions
    /\ clients[s] = <<>>
    /\ sstate[s] < RUNTIME_STATE
    /\ sstate' = [sstate EXCEPT ![s] = @ + 1]
    /\ UNCHANGED <<sessions, smaster, nodes, config, services, clients, handlers,
                   connVars, sockVars, extVars, rxVars, wkVars, logVars>>

\* ------------------------------------------------------ teardown, finish()
\* a drain loop that never gives up
DrainGivesUpNever(n) == FALSE
\* "if wait == timeout: break"
DrainGivesUp(n) == n = DrainTimeout

\* one turn of "while not self.message_queue.empty()": sleep(1), wait += 1
Drain(c) ==
    /\ rpc[c] = "drain"
    /\ IF queue[c] = <<>>
       THEN /\ rpc' = [rpc EXCEPT ![c] = "notify"]
            /\ UNCHANGED wait
       ELSE /\ wait' = [wait EXCEPT ![c] = @ + 1]
            /\ rpc' = [rpc EXCEPT ![c] = IF DrainGivesUp(wait[c] + 1) THEN "notify" ELSE "drain"]
    /\ UNCHANGED <<sessVars, connVars, sockVars, extVars, wkVars, logVars,
                   rcount, rgot, rmsg, ridx, rsess, rexit, jidx, rdel>>

\* "self.done = True"
Notify(c) ==
    /\ rpc[c] = "notify"
    /\ done' = [done EXCEPT ![c] = TRUE]
    /\ jidx' = [jidx EXCEPT ![c] = 1]
    /\ rpc' = [rpc EXCEPT ![c] = "join"]
    /\ UNCHANGED <<sessVars, csession, cmaster, queue, nsr, lock, sockVars, extVars, wkVars,
                   logVars, rcount, rgot, rmsg, ridx, rsess, rexit, wait, rdel>>

\* "thread.join(timeout)": it returns when the thread has ended or the timeout
\* has passed, and a thread still alive is only logged; after the last thread,
\* "if self.session:"
JoinThread(c) ==
    /\ rpc[c] = "join"
    /\ jidx' = [jidx EXCEPT ![c] = @ + 1]
    /\ rpc' = [rpc EXCEPT ![c] =
                  IF jidx[c] < NumThreads THEN "join"
                  ELSE IF csession[c] # None THEN "detach" ELSE "closed"]
    /\ UNCHANGED <<sessVars, connVars, sockVars, extVars, wkVars, logVars,
                   rcount, rgot, rmsg, ridx, rsess, rexit, wait, rdel>>

\* "self.remove_session_handlers()"; a ValueError leaves finish()
DetachHandlers(c) ==
    /\ rpc[c] = "detach"
    /\ IF c \in Range(handlers[csession[c]])
       THEN /\ handlers' = [handlers EXCEPT ![csession[c]] = RemoveFirst(@, c)]
            /\ rpc' = [rpc EXCEPT ![c] = "remove"]
            /\ UNCHANGED rexit
       ELSE /\ rpc' = [rpc EXCEPT ![c] = "closed"]
            /\ rexit' = [rexit EXCEPT ![c] = "finish raised"]
            /\ UNCHANGED handlers
    /\ UNCHANGED <<sessions, sstate, smaster, nodes, config, services, clients, connVars, sockVars, extVars, wkVars,
                   logVars, rcount, rgot, rmsg, ridx, rsess, wait, jidx, rdel>>

\* "self.session.broker.session_clients.remove(self)"
DetachClient(c) ==
    /\ rpc[c] = "remove"
    /\ IF c \in Range(clients[csession[c]])
       THEN /\ clients' = [clients EXCEPT ![csession[c]] = RemoveFirst(@, c)]
            /\ rpc' = [rpc EXCEPT ![c] = "check"]
            /\ UNCHANGED rexit
       ELSE /\ rpc' = [rpc EXCEPT ![c] = "closed"]
            /\ rexit' = [rexit EXCEPT ![c] = "finish raised"]
            /\ UNCHANGED clients
    /\ UNCHANGED <<sessions, sstate, smaster, nodes, config, services, handlers, connVars, sockVars, extVars, wkVars,
                   logVars, rcount, rgot, rmsg, ridx, rsess, wait, jidx, rdel>>

\* the test of "no session clients left and not active"
DetachCheck(c) ==
    /\ rpc[c] = "check"
    /\ rdel' = [rdel EXCEPT ![c] = LastOut(csession[c])]
    /\ rpc' = [rpc EXCEPT ![c] = IF LastOut(csession[c]) THEN "delete" ELSE "closed"]
    /\ UNCHANGED <<sessVars, connVars, sockVars, extVars, wkVars, logVars,
                   rcount, rgot, rmsg, ridx, rsess, rexit, wait, jidx>>

\* "self.coreemu.delete_session(self.session.id)"
DetachDelete(c) ==
    /\ rpc[c] = "delete"
    /\ sessions' = delete_session(csession[c])
    /\ calls' = Append(calls, Deleted(csession[c]))
    /\ rpc' = [rpc EXCEPT ![c] = "closed"]
    /\ UNCHANGED <<sstate, smaster, nodes, config, services, clients, handlers, connVars, sockVars, extVars, wkVars,
                   hlog, rcount, rgot, rmsg, ridx, rsess, rexit, wait, jidx, rdel>>

Finish(c) ==
    \/ Drain(c)
    \/ Notify(c)
    \/ JoinThread(c)
    \/ DetachHandlers(c)
    \/ DetachClient(c)
    \/ DetachCheck(c)
    \/ DetachDelete(c)

\* ------------------------------------------------- the workers on their own
\* Connection 1 is attached to session 1; its receive loop has queued the
\* frames of a script and now waits for the next header, and the workers, which
\* have not run yet, take the messages from the queue.
QueueOf(sc) == [i \in 1..Len(sc) |-> [sc[i].msg EXCEPT !.id = i]]

NoNodes == [n \in NodeIds |-> "none"]
SomeNodes == [n \in NodeIds |-> IF n = 1 THEN "wlan" ELSE "default"]

InitWorkIn(Frames, NodeMaps, States, Masters, Socks, Attached, Configs, Registered) ==
    /\ sessions = {1}
    /\ \E st \in States : sstate = [s \in SessIds |-> IF s = 1 THEN st ELSE DEFINITION_STATE]
    /\ \E ma \in Masters : smaster = [s \in SessIds |-> s = 1 /\ ma]
    /\ \E nm \in NodeMaps : nodes = [s \in SessIds |-> IF s = 1 THEN nm ELSE NoNodes]
    /\ \E cf \in Configs :
          config = [s \in SessIds |-> IF s = 1 THEN cf ELSE DefaultConfig]
    /\ services \in Registered
    /\ clients = [s \in SessIds |-> IF s = 1 THEN Attached ELSE <<>>]
    /\ handlers = clients
    /\ csession = [c \in Conns |-> IF c \in Range(Attached) THEN 1 ELSE None]
    /\ cmaster = [c \in Conns |-> FALSE]
    /\ done = [c \in Conns |-> FALSE]
    /\ \E sc \in ScriptsOf(Frames, {}) :
        /\ wire = [c \in Conns |-> IF c = 1 THEN sc ELSE <<>>]
        /\ queue = [c \in Conns |-> IF c = 1 THEN QueueOf(sc) ELSE <<>>]
        /\ rcount = [c \in Conns |-> IF c = 1 THEN Len(sc) ELSE 0]
    /\ nsr = [c \in Conns |-> {}]
    /\ lock = [c \in Conns |-> None]
    /\ closeKind = [c \in Conns |-> "fin"]
    /\ \E ok \in Socks : sockOk = [c \in Conns |-> c = 1 => ok]
    /\ sent = [c \in Conns |-> <<>>]
    /\ rpc = [c \in Conns |-> IF c \in Range(Attached) THEN "hdr" ELSE "idle"]
    /\ rgot = [c \in Conns |-> 0]
    /\ rmsg = [c \in Conns |-> NoMsg]
    /\ ridx = [c \in Conns |-> 1]
    /\ rsess = [c \in Conns |-> None]
    /\ rexit = [c \in Conns |-> "none"]
    /\ wait = [c \in Conns |-> 0]
    /\ jidx = [c \in Conns |-> 1]
    /\ rdel = [c \in Conns |-> FALSE]
    /\ wpc = [c \in Conns |-> [w \in Workers |-> IF c = 1 THEN "test" ELSE "idle"]]
    /\ wmsg = [c \in Conns |-> [w \in Workers |-> NoMsg]]
    /\ wres = [c \in Conns |-> [w \in Workers |-> FALSE]]
    /\ widx = [c \in Conns |-> [w \in Workers |-> 1]]
    /\ poll = [c \in Conns |-> [w \in Workers |-> NoPoll]]
    /\ hlog = <<>>
    /\ calls = <<>>
    /\ InitExt

\* connection 1 alone in its session, the configuration at its defaults
InitWork(Frames, NodeMaps, States, Masters, Socks) ==
    InitWorkIn(Frames, NodeMaps, States, Masters, Socks, <<1>>, {DefaultConfig}, {<<>>})

NextWork == \E w \in Workers : Work(1, w)

\* NODE messages: every combination of the ADD, DELETE and STRING flags
NodeFrames ==
    {WellFramed(NodeMsg(f, n, "default", fwd)) :
        f \in SUBSET {"ADD", "DELETE", "STRING"}, n \in NodeIds, fwd \in BOOLEAN}
Spec ==
    /\ InitWork(NodeFrames, {NoNodes, SomeNodes}, {DEFINITION_STATE, RUNTIME_STATE},
                {FALSE}, BOOLEAN)
    /\ [][NextWork]_vars

\* EVENT messages of every type (and without one), with and without a node,
\* and the few NODE messages that the deletion under the lock needs
EventFrames ==
    {WellFramed(EventMsg({}, e, n, "none", FALSE)) : e \in {None} \cup EventTypes,
                                                     n \in {None, 1}}
    \cup {WellFramed(EventMsg(f, SCHEDULED, None, "none", TRUE)) : f \in {{}, {"ADD"}}}
    \cup {WellFramed(EventMsg({}, START, 1, nm, FALSE)) : nm \in {"service", "mobility"}}
    \cup {WellFramed(NodeMsg(f, 1, "default", FALSE)) : f \in {{"ADD", "STRING"}, {"DELETE"}}}

SpecEvent ==
    /\ InitWork(EventFrames, {NoNodes, SomeNodes}, {DEFINITION_STATE}, BOOLEAN, BOOLEAN)
    /\ [][NextWork]_vars

\* the message a record of the log is about, as it was received
Received(e) == wire[e.c][e.id].msg
Log == Range(hlog)
SumOver(s, F(_)) ==
    LET f[i \in 0..Len(s)] == IF i = 0 THEN 0 ELSE f[i - 1] + F(s[i]) IN f[Len(s)]
Output(e) == Len(e.direct) + Len(e.replies)
Idle(c) == queue[c] = <<>> /\ \A w \in Workers : wpc[c][w] \in {"test", "get"}

\* C1: a message that the session's broker handled (forwarded) reaches no
\* local handler and gets no reply; a handler runs only for a message the
\* broker declined; what is sent on the socket is what the local handlings sent.
C1_BrokerFirstRefusal ==
    /\ \A e \in Log :
        /\ BrokerHandles(Received(e)) =>
              ~e.handler /\ e.replies = <<>> /\ e.direct = <<>> /\ e.calls = <<>> /\ e.same
        /\ e.handler => ~BrokerHandles(Received(e))
    /\ Len(sent[1]) = IF sockOk[1] THEN SumOver(hlog, Output) ELSE 0
C1_Witness ==
    \E e, f \in Log :
        /\ BrokerHandles(Received(e)) /\ "ADD" \in e.flags /\ ~e.had
        /\ f.handler /\ f.replies # <<>>

\* C2: a NODE message with both ADD and DELETE set is rejected: no reply, no
\* add_node, delete_node or update_node, node_status_request and the node
\* table as they were, whatever the other flags and the node are.
C2_AddDeleteRejected ==
    \A e \in Log :
        (e.type = "NODE" /\ {"ADD", "DELETE"} \subseteq e.flags) =>
            /\ e.replies = <<>> /\ e.direct = <<>>
            /\ e.calls = <<>>
            /\ e.same
            /\ ~e.raised
C2_Witness ==
    \E e \in Log :
        /\ e.handler /\ e.flags = {"ADD", "DELETE", "STRING"} /\ ~e.had
        /\ e.before = RUNTIME_STATE

\* the deletions of one node: every message of the script is a NODE(DELETE) of
\* node n that the broker declines, n exists at the first handling, and all
\* have been handled
Deletions(n, k) ==
    /\ Len(wire[1]) = k
    /\ Len(hlog) = k
    /\ \A i \in 1..k :
        IsDelete(wire[1][i].msg) /\ wire[1][i].msg.node = n /\ ~wire[1][i].msg.fwd
    /\ hlog[1].had
Removed(e) == \E i \in 1..Len(e.calls) : e.calls[i][1] = "removed"
Notices(e) == CountIn(e.replies, LAMBDA r : r.type = "NODE" /\ r.flags = {"DELETE", "LOCAL"})

C4_PhaseSetFromAnyState ==
    \A e \in Log :
        (e.handler /\ e.type = "EVENT" /\ e.etype \in 1..SHUTDOWN_STATE /\ e.node = None) =>
            /\ e.after = e.etype
            /\ ~e.raised
            /\ e.replies = <<>>
            /\ e.calls[1] = <<"set_state", e.etype>>
            /\ e.etype = RUNTIME_STATE =>
                 e.calls = <<<<"set_state", RUNTIME_STATE>>,
                             IF e.master THEN <<"warning", RUNTIME_STATE>>
                             ELSE <<"start_events", None>>>>
C4_Witness ==
    \E e, f \in Log :
        /\ e.etype = RUNTIME_STATE /\ e.node = None /\ e.before = DEFINITION_STATE
        /\ e.after = RUNTIME_STATE /\ ~e.master
        /\ f.etype = CONFIGURATION_STATE /\ f.before = RUNTIME_STATE /\ f.after = CONFIGURATION_STATE

\* C6: a handler that raises is caught for its message: no reply for it, the
\* worker goes on, the connection stays open, and the messages queued after
\* it are handled too (nothing is left when the workers are idle).
C6_HandlerExceptionCaught ==
    /\ \A e \in Log :
        e.raised =>
            /\ e.replies = <<>> /\ e.direct = <<>>
            /\ wpc[e.c][e.w] \in {"test", "get", "handle", "delete"}
            /\ InLoop(e.c) /\ ~done[e.c]
    /\ Idle(1) => Len(hlog) = Len(wire[1])
    /\ Len(sent[1]) = IF sockOk[1] THEN SumOver(hlog, Output) ELSE 0
C6_Witness ==
    /\ Len(hlog) = 2
    /\ hlog[1].raised /\ hlog[1].id = 1 /\ hlog[1].etype = None
    /\ hlog[2].id = 2 /\ hlog[2].w = hlog[1].w /\ hlog[2].calls # <<>>

\* ---------------------------------------------- the receive loop on its own
\* Connection 1 is in its receive loop, attached to session 1 with some of the
\* other connections, which joined that session and now send nothing; the
\* workers are left out, so what is queued stays queued.
RecvTypes == {"NODE", "LINK", "EVENT", "EXCEPTION", "UNKNOWN"}
RecvFrames == {WellFramed(Msg(t, {"ADD"}, 1, l)) : t \in RecvTypes, l \in {0, MaxBody}}
CutFrames ==
    {Frame(Msg("NODE", {"ADD"}, 1, MaxBody), "full", a) : a \in 0..(MaxBody - 1)}
    \cup {Frame(NoMsg, "short", 0)}
\* the client lists of session 1 that hold connection 1
ClientLists ==
    {s \in UNION {[1..n -> Conns] : n \in 1..NumConns} :
        /\ 1 \in Range(s)
        /\ \A i, j \in 1..Len(s) : i # j => s[i] # s[j]}

InitRecv ==
    /\ \E cl \in ClientLists :
        /\ clients = [s \in SessIds |->
                         IF s = 1 THEN cl ELSE IF s \in Range(cl) THEN <<>> ELSE <<s>>]
        /\ handlers = clients
        /\ sessions = {1} \cup (Conns \ Range(cl))
        /\ csession = [c \in Conns |-> IF c \in Range(cl) THEN 1 ELSE c]
    /\ sstate = [s \in SessIds |-> DEFINITION_STATE]
    /\ smaster = [s \in SessIds |-> FALSE]
    /\ nodes = [s \in SessIds |-> [n \in NodeIds |-> "none"]]
    /\ config = [s \in SessIds |-> DefaultConfig]
    /\ services = <<>>
    /\ cmaster = [c \in Conns |-> FALSE]
    /\ done = [c \in Conns |-> FALSE]
    /\ queue = [c \in Conns |-> <<>>]
    /\ nsr = [c \in Conns |-> {}]
    /\ lock = [c \in Conns |-> None]
    /\ \E sc \in ScriptsOf(RecvFrames, CutFrames) :
        wire = [c \in Conns |-> IF c = 1 THEN sc ELSE <<>>]
    /\ closeKind \in [Conns -> {"fin", "rst"}]
    /\ \A c \in Conns \ {1} : closeKind[c] = "fin"
    /\ sockOk \in [Conns -> BOOLEAN]
    /\ sockOk[1]
    /\ sent = [c \in Conns |-> <<>>]
    /\ rpc = [c \in Conns |-> "hdr"]
    /\ rcount = [c \in Conns |-> 0]
    /\ rgot = [c \in Conns |-> 0]
    /\ rmsg = [c \in Conns |-> NoMsg]
    /\ ridx = [c \in Conns |-> 1]
    /\ rsess = [c \in Conns |-> None]
    /\ rexit = [c \in Conns |-> "none"]
    /\ wait = [c \in Conns |-> 0]
    /\ jidx = [c \in Conns |-> 1]
    /\ rdel = [c \in Conns |-> FALSE]
    /\ wpc = [c \in Conns |-> [w \in Workers |-> "test"]]
    /\ wmsg = [c \in Conns |-> [w \in Workers |-> NoMsg]]
    /\ wres = [c \in Conns |-> [w \in Workers |-> FALSE]]
    /\ widx = [c \in Conns |-> [w \in Workers |-> 1]]
    /\ poll = [c \in Conns |-> [w \in Workers |-> NoPoll]]
    /\ hlog = <<>>
    /\ calls = <<>>
    /\ InitExt

NextRecv == Receive(1)
SpecRecv == InitRecv /\ [][NextRecv]_vars
\* the receive thread is a thread of its own: it keeps running
SpecRecvFair == SpecRecv /\ WF_vars(NextRecv)

\* the turn of the receive loop for the i-th frame of connection c is over
TurnOver(c, i) == rcount[c] > i \/ (rcount[c] = i /\ rpc[c] \in {"hdr", "drain"})
WasQueued(c, i) == \E k \in 1..Len(queue[c]) : queue[c][k].id = i
Copies(p, c, i) ==
    CountIn(sent[p], LAMBDA e : e.kind = "mirror" /\ e.from = c /\ e.id = i)

\* C5: every NODE or LINK message received on a connection is sent exactly
\* once, by that connection's receive loop, to each other connection of the
\* session's client list (whose socket takes it), never to the connection
\* itself, and a message of another type is sent to nobody.
C5_MirrorToOthersOnce ==
    \A i \in 1..Len(wire[1]) :
        (TurnOver(1, i) /\ WasQueued(1, i)) =>
            \A p \in Conns :
                sockOk[p] =>
                    Copies(p, 1, i) =
                        IF /\ wire[1][i].msg.type \in {"NODE", "LINK"}
                           /\ p # 1
                           /\ p \in Range(clients[csession[1]])
                        THEN 1 ELSE 0

\* C7: a well-framed message of a type without a message class is dropped and
\* the receive loop goes on: it never ends the loop.
C7_UnknownTypeDropped ==
    \A c \in Conns :
        ~(/\ rexit[c] # "none"
          /\ rcount[c] > 0
          /\ CurFrame(c) \in RecvFrames
          /\ CurFrame(c).msg.type \notin CLASS_MAP)

\* the peer closed after a full header and fewer body bytes than it declared
ShortBody(c) ==
    /\ rpc[c] \in {"bodyTest", "bodyRecv"}
    /\ CurFrame(c).avail < CurFrame(c).msg.len

\* C8: after a full header declaring L > 0 body bytes and a close before L
\* bytes, receive_message ends with a disconnect (the receive loop is left and
\* the teardown runs), and it never returns a decoded message.
C8_ShortBodyEndsReceive ==
    /\ \A c \in Conns : ShortBody(c) ~> InFinish(c)
    /\ [](\A c \in Conns :
            rpc[c] = "decode" => CurFrame(c).avail = CurFrame(c).msg.len)

\* ------------------------------------------------------------ the teardown
\* Connection 1 is attached alone to session 1; its peer has sent the frames
\* of a script, which are queued, and closes; the workers have not run yet.
FinishFrames ==
    {WellFramed(EventMsg({}, RUNTIME_STATE, None, "none", FALSE)),
     WellFramed(NodeMsg({"DELETE", "STRING"}, 1, "default", FALSE))}
InitFinish == InitWork(FinishFrames, {SomeNodes}, {DEFINITION_STATE}, {FALSE}, {TRUE})
NextFinish ==
    \/ RecvHeader(1)
    \/ Finish(1)
    \/ \E w \in Workers : Work(1, w)
SpecFinish == InitFinish /\ [][NextFinish]_vars
\* The receive thread keeps running: sleep(1) and join(timeout) return. A
\* worker keeps running its loop, where get(timeout=1) returns; nothing makes
\* a handler return, so the handling steps are not fair.
SpecFinishFair ==
    /\ SpecFinish
    /\ WF_vars(RecvHeader(1) \/ Finish(1))
    /\ \A w \in Workers : WF_vars(WorkerTest(1, w) \/ WorkerGet(1, w))

InHandler(c, w) == wpc[c][w] \in {"handle", "delete", "sloop", "sdetach", "sremove",
                                  "scheck", "sdelete", "sattach"}

\* C9: the teardown always ends, whatever the workers do: the drain loop makes
\* at most DrainTimeout polls, done is set before the joins, the joins are one
\* per worker, and a worker that is not inside a handler leaves its loop once
\* done is set (or takes a message and is then inside a handler).
C9_TeardownTerminates ==
    /\ (rpc[1] = "drain") ~> (rpc[1] = "closed")
    /\ [](\A c \in Conns :
            /\ wait[c] <= DrainTimeout
            /\ rpc[c] = "drain" => wait[c] < DrainTimeout
            /\ rpc[c] \in {"join", "detach", "remove", "check", "delete", "closed"} => done[c]
            /\ jidx[c] <= NumThreads + 1)
    /\ \A w \in Workers :
          (done[1] /\ wpc[1][w] \in {"test", "get"}) ~>
              (wpc[1][w] = "exit" \/ InHandler(1, w))
C9_Witness ==
    /\ rpc[1] = "closed"
    /\ wait[1] = DrainTimeout
    /\ queue[1] # <<>>
    /\ \E w, v \in Workers : wpc[1][w] = "handle" /\ wpc[1][v] = "exit"

\* ---------------------------------------------- connections and their sessions
\* Connection 1 is attached to session 1, its peer stays connected, and its
\* workers take the queued SESSION and EVENT messages; the other connections
\* connect, send nothing (their workers find their queues empty) and close.
SessionFrames ==
    {WellFramed(SessionMsg({"ADD", "STRING"}, <<2, 3>>)),
     WellFramed(SessionMsg({"DELETE"}, <<2>>)),
     WellFramed(EventMsg({}, RUNTIME_STATE, None, "none", FALSE))}
InitSession == InitWork(SessionFrames, {NoNodes}, {DEFINITION_STATE}, {FALSE}, {TRUE})
NextSession ==
    \/ \E c \in Conns \ {1} : Connect(c) \/ RecvHeader(c) \/ Finish(c)
    \/ \E w \in Workers :
          WorkerTest(1, w) \/ WorkerGet(1, w) \/ HandleMessage(1, w) \/ SessionLoop(1, w)
SpecSession == InitSession /\ [][NextSession]_vars

\* the deletions that detaches made
DetachDeletes == {calls[i][2] : i \in {j \in 1..Len(calls) : calls[j][1] = "detach_delete"}}

\* C10: a detach (at teardown or at a join) deletes the session only when no
\* connection is attached to it any more and it is not active: a session with
\* an attached connection, or an active one, is never deleted by a detach.
C10_DetachDeletesOnlyLastInactive ==
    \A d \in DetachDeletes : d.left = <<>> /\ ~d.active

\* ------------------------------------------------- the CONFIG messages
\* Connections 1 and 2 are attached to session 1; connection 1 has queued the
\* CONFIG messages of a script and its workers handle them; connection 2 sends
\* nothing. The session's configuration is at its defaults or was updated before.
PlainObjects ==
    {"all", OptionsName, LocationName, MetadataName, BrokerName, MobilityName,
     EmaneName, "bogus"}
ModelTargets == {<<1, NoIface>>, <<1, 0>>, <<KeyFactor, NoIface>>}
ConfigFrames ==
    {WellFramed(ConfigMsg(o, t, None, NoIface, "a")) : o \in PlainObjects, t \in ConfigFlags}
    \cup {WellFramed(ConfigMsg(o, t, x[1], x[2], "a")) :
            o \in MobilityModels \cup EmaneModels, t \in {"REQUEST", "UPDATE", "RESET"},
            x \in ModelTargets}
    \cup {WellFramed(ConfigMsg(o, "UPDATE", None, 0, "a")) : o \in MobilityModels}
    \cup {WellFramed(ConfigMsg(OptionsName, t, None, NoIface, "")) : t \in {"UPDATE", "MISSING"}}
    \cup {WellFramed(ServicesMsg("REQUEST", None, "", "", "none")),
          WellFramed(ServicesMsg("REQUEST", 1, "", "service:zebra", "none")),
          WellFramed(ServicesMsg("RESET", None, "", "", "none")),
          WellFramed(ServicesMsg("UPDATE", None, "a", "", "string")),
          WellFramed(ServicesMsg("NONE", None, "a", "", "none")),
          WellFramed(ServicesMsg("UPDATE", 1, "a", "service:zebra", "string"))}
InitConfig ==
    InitWorkIn(ConfigFrames, {NoNodes}, {DEFINITION_STATE}, BOOLEAN, {TRUE}, <<1, 2>>,
               {DefaultConfig, AllSame("a")}, {<<>>})
NextHandle == \E w \in Workers : WorkerTest(1, w) \/ WorkerGet(1, w) \/ HandleMessage(1, w)
SpecConfig == InitConfig /\ [][NextHandle]_vars

\* a handling of a CONFIG message by its handler, and one that changes the
\* configuration: an UPDATE or a RESET for a routable object, handled without raising
IsConfig(e) == e.type = "CONFIG" /\ e.handler
Mutating(e) ==
    IsConfig(e) /\ ~e.raised /\ e.msg.ctype \in {"UPDATE", "RESET"} /\ e.msg.obj \in Routable
ConfigsSentTo(p) == CountIn(sent[p], LAMBDA r : r.type = "CONFIG")

\* C11, as claimed: when the workers have handled what was queued, every
\* connection attached to the session has received a CONFIG notification for
\* each UPDATE or RESET that was handled without raising.
C11_MutationBroadcastToAll ==
    Idle(1) =>
        \A p \in Range(clients[1]) :
            ConfigsSentTo(p) >= Cardinality({i \in 1..Len(hlog) : Mutating(hlog[i])})

\* what the handling sent by itself on the socket, here by handle_broadcast_config
Direct(e) == Len(e.direct)

\* C12: a CONFIG message handled without raising returns the empty reply list,
\* whatever its object and type; the CONFIG messages the client receives are
\* those handle_broadcast_config sent during the handlings.
C12_ConfigRepliesEmpty ==
    /\ \A e \in Log : IsConfig(e) /\ ~e.raised => e.replies = <<>>
    /\ ConfigsSentTo(1) = SumOver(hlog, Direct)
C12_Witness ==
    /\ Len(hlog) = 2
    /\ hlog[1].msg.ctype = "REQUEST" /\ hlog[1].msg.obj = MetadataName
    /\ ~hlog[1].raised /\ hlog[1].direct # <<>> /\ hlog[1].replies = <<>>
    /\ hlog[2].msg.ctype = "UPDATE" /\ ~hlog[2].raised /\ hlog[2].replies = <<>>
    /\ ConfigsSentTo(1) = 1

\* the subsystem handlers, in the order of the routing, with the objects each matches
Priority ==
    <<<<{OptionsName}, "handle_config_session">>,
      <<{LocationName}, "handle_config_location">>,
      <<{MetadataName}, "handle_config_metadata">>,
      <<{BrokerName}, "handle_config_broker">>,
      <<{ServicesName}, "handle_config_services">>,
      <<{MobilityName}, "handle_config_mobility">>,
      <<MobilityModels, "handle_config_mobility_models">>,
      <<{EmaneName}, "handle_config_emane">>,
      <<EmaneModels, "handle_config_emane_models">>>>
FirstMatch(obj) ==
    IF obj = "all" THEN "handle_config_all"
    ELSE Priority[CHOOSE i \in 1..Len(Priority) :
                     /\ obj \in Priority[i][1]
                     /\ \A j \in 1..(i - 1) : obj \notin Priority[j][1]][2]
HandlerNames == {Priority[i][2] : i \in 1..Len(Priority)} \cup {"handle_config_all"}
Entered(e) == {i \in 1..Len(e.calls) : e.calls[i][1] \in HandlerNames}
Routed(e) == IsConfig(e) /\ e.msg.ctype \in ConfigFlags /\ e.msg.obj \in Routable
ModelsAtDefault(store) == \A k \in ModelKeys : store[k] = "default"

Addressed(cfg, m) ==
    CASE m.obj = OptionsName -> cfg.session
      [] m.obj = LocationName -> cfg.location
      [] m.obj = MetadataName -> cfg.metadata
      [] m.obj = ServicesName -> cfg.services
      [] m.obj = MobilityName ->
            IF ModelsAtDefault(cfg.mobility) THEN "default" ELSE "a"
      [] m.obj \in MobilityModels -> cfg.mobility[ModelKey(m.node, m.iface)]
      [] m.obj = EmaneName -> cfg.emane
      [] m.obj \in EmaneModels -> cfg.emanemodels[ModelKey(m.node, m.iface)]
      [] OTHER -> "default"
Resettable == Routable \ {"all", BrokerName}

\* C14, as claimed: a RESET for a routable subsystem, handled without raising,
\* leaves that subsystem's configuration at its defaults, and a REQUEST handled
\* next for the same object and target reports the defaults.
C14_ResetRestoresDefaults ==
    /\ \A e \in Log :
        Routed(e) /\ ~e.raised /\ e.msg.ctype = "RESET" /\ e.msg.obj \in Resettable =>
            Addressed(e.cfgafter, e.msg) = "default"
    /\ \A i \in 1..(Len(hlog) - 1) :
        /\ Routed(hlog[i]) /\ ~hlog[i].raised /\ hlog[i].msg.ctype = "RESET"
        /\ hlog[i].msg.obj \in Resettable
        /\ hlog[i + 1].msg = [hlog[i].msg EXCEPT !.ctype = "REQUEST", !.id = @ + 1]
        /\ hlog[i + 1].direct # <<>>
        => hlog[i + 1].direct[1].val = "default"

\* C15: a CONFIG message for an object that no subsystem matches raises in its
\* handling: the configuration is as before, nothing is sent, the worker and the
\* connection go on, and the messages queued after it are handled.
C15_UnknownObjectLocal ==
    /\ \A e \in Log :
        IsConfig(e) /\ e.msg.ctype \in ConfigFlags /\ e.msg.obj \notin Routable =>
            /\ e.raised /\ e.cfgafter = e.cfgbefore
            /\ e.direct = <<>> /\ e.replies = <<>> /\ e.calls = <<>>
            /\ wpc[e.c][e.w] \in {"test", "get", "handle"}
            /\ InLoop(e.c) /\ ~done[e.c]
    /\ Idle(1) => Len(hlog) = Len(wire[1])
C15_Witness ==
    /\ Len(hlog) = 2
    /\ hlog[1].id = 1 /\ hlog[1].msg.obj = "bogus" /\ hlog[1].raised
    /\ hlog[2].id = 2 /\ hlog[2].w = hlog[1].w /\ hlog[2].msg.obj = OptionsName
    /\ hlog[2].msg.ctype = "UPDATE" /\ hlog[2].cfgafter # hlog[2].cfgbefore
    /\ sent[1] = <<>>

\* a REQUEST for the configuration of a model, answered
ModelRequest(e) ==
    /\ Routed(e) /\ ~e.raised /\ e.msg.ctype = "REQUEST"
    /\ e.msg.obj \in MobilityModels \cup EmaneModels /\ e.direct # <<>>
SameTarget(m1, m2) == m1.obj = m2.obj /\ m1.node = m2.node /\ m1.iface = m2.iface

\* C16, as claimed: the targets of per-model configuration (a node alone, or a
\* node with an interface) never share a key: in a session that starts from the
\* defaults, a REQUEST for a target reports a configured value only when an
\* UPDATE for that same target was handled before it.
C16_TargetsNeverClash ==
    \A i \in 1..Len(hlog) :
        /\ hlog[1].cfgbefore = DefaultConfig
        /\ ModelRequest(hlog[i])
        /\ hlog[i].direct[1].val # "default"
        => \E j \in 1..(i - 1) :
              hlog[j].msg.ctype = "UPDATE" /\ SameTarget(hlog[j].msg, hlog[i].msg)

\* ------------------------------------------- the listing of the services
\* Connection 1 asks for the list of the services; the daemon
\* has registered up to MaxServices services, whose names and groups are
\* letters in either case, and which iterate in any order.
Names == [ch : 1..NumLetters, up : BOOLEAN]
ServiceLists ==
    UNION {{sv \in [1..n -> [name : Names, group : Names, custom : BOOLEAN]] :
               \A i, j \in 1..n : i # j => sv[i].name # sv[j].name} :
           n \in 0..MaxServices}
ListingFrames == {WellFramed(ServicesMsg("REQUEST", None, "", "", "none"))}
InitServices ==
    /\ InitWorkIn(ListingFrames, {NoNodes}, {DEFINITION_STATE}, {FALSE}, {TRUE}, <<1>>,
                  {DefaultConfig}, ServiceLists)
    /\ Len(wire[1]) = 1
SpecServices == InitServices /\ [][NextHandle]_vars

\* the registered service of a caption, the group of a group string
Named(cap) == CHOOSE i \in 1..Len(services) : <<NameTok(services[i].name)>> = cap
IsCaption(cap) == \E i \in 1..Len(services) : <<NameTok(services[i].name)>> = cap
GroupOfTok(t) == [ch |-> t.ch, up |-> t.up]
\* what the claim asks of a listing
ListingOK(L) ==
    LET n == Len(services)
        caps == Split(L.captions)
        vals == Split(L.values)
        poss == Split(L.possible_values)
        grps == Split(L.groups)
    IN  /\ Len(L.data_types) = n
        /\ \A i \in 1..n : L.data_types[i] = "BOOL"
        /\ n = 0 => L.captions = <<>> /\ L.values = <<>> /\ L.possible_values = <<>>
                     /\ L.groups = <<>>
        /\ n >= 1 =>
            \* one entry per service at the same index
            /\ Len(caps) = n /\ Len(vals) = n /\ Len(poss) = n
            /\ \A i \in 1..n : IsCaption(caps[i])
            /\ \A i \in 1..Len(services) : \E k \in 1..n : Named(caps[k]) = i
            /\ \A i \in 1..n :
                /\ vals[i] = <<LitTok("0")>>
                /\ poss[i] = IF services[Named(caps[i])].custom THEN <<LitTok("1")>> ELSE <<>>
            \* the ranges: 1-based, contiguous, up to the number of services
            /\ \A j \in 1..Len(grps) :
                /\ Len(grps[j]) = 1 /\ grps[j][1].k = "range"
                /\ grps[j][1].lo <= grps[j][1].hi
                /\ grps[j][1].lo = IF j = 1 THEN 1 ELSE grps[j - 1][1].hi + 1
            /\ grps[Len(grps)][1].hi = n
            /\ {GroupOfTok(grps[j][1]) : j \in 1..Len(grps)} = GroupsOf(services)
            /\ Len(grps) = Cardinality(GroupsOf(services))
            \* the groups in case-insensitive order
            /\ \A j, k \in 1..Len(grps) : j < k => grps[j][1].ch <= grps[k][1].ch
            \* the services of a group in its range, in case-insensitive order
            /\ \A j \in 1..Len(grps) :
                \A i, k \in grps[j][1].lo..grps[j][1].hi :
                    /\ services[Named(caps[i])].group = GroupOfTok(grps[j][1])
                    /\ i < k => caps[i][1].ch <= caps[k][1].ch
ListingRequest(e) ==
    /\ IsConfig(e) /\ ~e.raised /\ e.msg.obj = ServicesName
    /\ e.msg.ctype = "REQUEST" /\ e.msg.opaque = ""

\* C17: the reply to a REQUEST for the services without an opaque selector
\* lists the groups in case-insensitive order and the services of each group
\* in case-insensitive order, with 1-based contiguous ranges that end at the
\* number of services, and with one caption, value, possible value and data
\* type per service at the same index; this for every set of registered
\* services and every order in which the set of groups iterates.
C17_ServicesListing ==
    \A e \in Log :
        ListingRequest(e) =>
            /\ Len(e.direct) = 1
            /\ e.direct[1].obj = ServicesName
            /\ ListingOK(e.direct[1].listing)
            /\ \A o \in SetOrders(GroupsOf(services)) : ListingOK(Listing(services, o))
C17_Witness ==
    /\ Len(hlog) = 1 /\ ListingRequest(hlog[1])
    /\ Len(services) = MaxServices
    /\ Cardinality(GroupsOf(services)) = 2
    /\ services[1].name.ch > services[2].name.ch /\ services[1].group = services[2].group
    /\ services[3].group.ch < services[1].group.ch
    /\ Len(Split(hlog[1].direct[1].listing.captions)) = MaxServices
    /\ sent[1] = hlog[1].direct

\* ------------------------------------------------- the EXECUTE messages
\* Connection 1 has queued the EXECUTE messages of a script, and its workers
\* handle them; the session holds node 1 and not node 2.
OneNode == [n \in NodeIds |-> IF n = 1 THEN "default" ELSE "none"]
ExecuteFlags == {{}, {"LOCAL"}, {"STRING"}, {"LOCAL", "STRING"}, {"TTY"}}
ExecuteFrames ==
    {WellFramed(ExecuteMsg(f, n, x[1], x[2])) :
        f \in ExecuteFlags, n \in {None} \cup NodeIds,
        x \in {<<1, FALSE>>, <<None, FALSE>>, <<1, TRUE>>}}
InitExecute ==
    InitWorkIn(ExecuteFrames, {OneNode}, {RUNTIME_STATE}, {FALSE}, {TRUE}, <<1>>,
               {DefaultConfig}, {<<>>})
SpecExecute == InitExecute /\ [][NextHandle]_vars

IsExecute(e) == e.type = "EXECUTE" /\ e.handler
\* the copies of message i of the script that wait in the queue or are being handled
InFlight(i) ==
    CountIn(queue[1], LAMBDA m : m.id = i)
    + Cardinality({w \in Workers : wpc[1][w] = "handle" /\ wmsg[1][w].id = i})

\* C18: an EXECUTE message without a node and without the LOCAL flag is
\* rejected: its handling raises, runs no command, schedules no event, sends
\* no reply and does not put the message back on the queue.
C18_MissingNodeRejected ==
    \A e \in Log :
        IsExecute(e) /\ e.msg.node = None /\ "LOCAL" \notin e.msg.flags =>
            /\ e.raised /\ e.calls = <<>>
            /\ e.replies = <<>> /\ e.direct = <<>> /\ e.requeue = <<>>
            /\ InFlight(e.id) = 0
C18_Witness ==
    /\ Len(hlog) = 2 /\ Idle(1)
    /\ IsExecute(hlog[1]) /\ hlog[1].id = 1 /\ hlog[1].msg.node = None
    /\ hlog[1].msg.flags = {"STRING"} /\ hlog[1].msg.num # None /\ ~hlog[1].msg.time
    /\ hlog[1].raised
    /\ hlog[2].id = 2 /\ hlog[2].replies # <<>>

\* an EXECUTE message without the LOCAL flag for a node the session does not hold
UnknownNode(e) ==
    IsExecute(e) /\ "LOCAL" \notin e.msg.flags /\ e.msg.node # None /\ ~e.had
\* no reply, and the same message back on the queue once
PutBack(e) == e.replies = <<>> /\ e.direct = <<>> /\ e.requeue = <<e.msg>>

\* C19, as claimed: every handling of an EXECUTE message without LOCAL for a
\* node that is not in the session sends no reply and puts the message back
\* once; with LOCAL the message is never put back.
C19_UnknownNodeRequeued ==
    /\ \A e \in Log : UnknownNode(e) => PutBack(e)
    /\ \A e \in Log : IsExecute(e) /\ "LOCAL" \in e.msg.flags => e.requeue = <<>>
    /\ \A i \in 1..MaxMsgs : InFlight(i) <= 1

\* C19, amended: the same for a message that carries an execution number and
\* no time; a message without a number is rejected and one with a time is
\* scheduled as an event, neither is put back.
C19_UnknownNodeRequeuedWhenRun ==
    /\ \A e \in Log :
        UnknownNode(e) =>
            IF e.msg.num # None /\ ~e.msg.time THEN PutBack(e)
            ELSE e.requeue = <<>> /\ e.replies = <<>> /\ e.direct = <<>>
    /\ \A e \in Log : IsExecute(e) /\ "LOCAL" \in e.msg.flags => e.requeue = <<>>
    /\ \A i \in 1..MaxMsgs : InFlight(i) <= 1
C19_Witness ==
    /\ Len(hlog) = 2
    /\ IsExecute(hlog[1]) /\ hlog[1].msg.flags = {"LOCAL"} /\ hlog[1].msg.node = MaxNode
    /\ hlog[1].msg.num # None /\ ~hlog[1].msg.time /\ ~hlog[1].raised
    /\ UnknownNode(hlog[2]) /\ hlog[2].msg.num # None /\ ~hlog[2].msg.time
    /\ queue[1] = <<hlog[2].msg>> /\ sent[1] = <<>>

\* ------------------------------------------------- the EXECUTE retry
\* The script holds EXECUTE messages for node 2, which the session does not
\* hold, with and without LOCAL, an EXECUTE for node 1, and the NODE message
\* that adds node 2; the worker threads are scheduled fairly and never stop.
RetryFrames ==
    {WellFramed(ExecuteMsg({}, MaxNode, 1, FALSE)),
     WellFramed(ExecuteMsg({"LOCAL"}, MaxNode, 1, FALSE)),
     WellFramed(ExecuteMsg({"STRING"}, 1, 1, FALSE)),
     WellFramed(NodeMsg({"ADD"}, MaxNode, "default", FALSE))}
InitRetry ==
    InitWorkIn(RetryFrames, {OneNode}, {RUNTIME_STATE}, {FALSE}, {TRUE}, <<1>>,
               {DefaultConfig}, {<<>>})
SpecRetry ==
    /\ InitRetry
    /\ [][NextHandle]_vars
    /\ \A w \in Workers :
          WF_vars(WorkerTest(1, w) \/ WorkerGet(1, w) \/ HandleMessage(1, w))

\* message i of the script is an EXECUTE without LOCAL, to be run now, for a
\* node that the session does not hold and that no message of the script adds
Doomed(i) ==
    /\ i \in 1..Len(wire[1])
    /\ wire[1][i].msg.type = "EXECUTE" /\ "LOCAL" \notin wire[1][i].msg.flags
    /\ wire[1][i].msg.num # None /\ ~wire[1][i].msg.time
    /\ wire[1][i].msg.node \in NodeIds /\ nodes[1][wire[1][i].msg.node] = "none"
    /\ \A j \in 1..Len(wire[1]) : wire[1][j].msg.type # "NODE"
Handling(i) == \E w \in Workers : wpc[1][w] = "handle" /\ wmsg[1][w].id = i

\* C20: the retry of an EXECUTE for a node that never appears has no end: the
\* message is never dropped, the queue is non-empty again and again, and a
\* worker handles the message again and again, for as long as the workers run.
C20_RetryNeverStops ==
    \A i \in 1..MaxMsgs :
        Doomed(i) =>
            /\ [](InFlight(i) = 1)
            /\ []<>(queue[1] # <<>>)
            /\ []<>Handling(i)
C20_Witness ==
    /\ Len(hlog) = MaxLog
    /\ \A k \in 1..MaxLog : UnknownNode(hlog[k]) /\ hlog[k].id = 1 /\ PutBack(hlog[k])
    /\ Len(wire[1]) = 1 /\ Doomed(1)
    /\ queue[1] = <<hlog[1].msg>>

\* ------------------------------------------------ EVENT messages, continued
PulseTypes == {START, STOP, RESTART, PAUSE, RECONFIGURE, FILE_OPEN, FILE_SAVE, SCHEDULED}
PhaseTypes == {DEFINITION_STATE, CONFIGURATION_STATE, INSTANTIATION_STATE,
               RUNTIME_STATE, DATACOLLECT_STATE, SHUTDOWN_STATE}
IsEvent(e) == e.type = "EVENT" /\ e.handler
CallNames(e) == {e.calls[i][1] : i \in 1..Len(e.calls)}
PhaseCalls == {"set_state", "clear", "instantiate", "start_events", "data_collect"}

\* C24: the handling of an EVENT message with a pulse type (START, STOP,
\* RESTART, PAUSE, RECONFIGURE, FILE_OPEN, FILE_SAVE, SCHEDULED) never sets the
\* session state, with or without a node number, whatever the state was.
C24_PulseKeepsState ==
    \A e \in Log :
        IsEvent(e) /\ e.etype \in PulseTypes =>
            e.after = e.before /\ "set_state" \notin CallNames(e)
\* a pulse with a node number was handled in a session that had left DEFINITION
C24_Witness ==
    \E e \in Log :
        /\ IsEvent(e) /\ e.etype \in PulseTypes
        /\ e.node # None /\ e.before # DEFINITION_STATE

\* C25: the handling of an EVENT message with a phase type and a node number
\* changes no state and makes no phase call (set_state, clear, instantiate,
\* start_events, data_collect) and gives no reply; the one thing it can do is
\* start mobility for that node, when the type is INSTANTIATION and the node
\* is a WLAN.
C25_NodePhaseDropped ==
    \A e \in Log :
        IsEvent(e) /\ e.etype \in PhaseTypes /\ e.node # None =>
            /\ e.after = e.before /\ e.same
            /\ CallNames(e) \cap PhaseCalls = {}
            /\ e.replies = <<>> /\ e.direct = <<>>
            /\ IF e.etype = INSTANTIATION_STATE /\ e.kind = "wlan"
               THEN e.calls = << <<"start_mobility", e.node>> >>
               ELSE "start_mobility" \notin CallNames(e)
\* mobility was started for a WLAN node by an INSTANTIATION event that names it
C25_Witness ==
    \E e \in Log : /\ IsEvent(e) /\ e.etype = INSTANTIATION_STATE
                    /\ e.node # None /\ e.kind = "wlan"
                    /\ e.calls = << <<"start_mobility", e.node>> >>

BrokerFrames ==
    {WellFramed(BrokerMsg(t, x, v)) :
        t \in ConfigFlags, x \in {"none", "2", "2|1", "x"},
        v \in {"", "a", "s:h:1", "s::", "s:h:1,t:g:2", "s:h:x", "s:h"}}
InitBroker ==
    InitWorkIn(BrokerFrames, {NoNodes}, {DEFINITION_STATE}, {FALSE}, {TRUE}, <<1>>,
               {DefaultConfig}, {<<>>})
SpecBroker == InitBroker /\ [][NextHandle]_vars

IsBroker(e) == IsConfig(e) /\ e.msg.obj = BrokerName
\* the servers a well formed string names, as (name, host, port)
Named3(vals) ==
    CASE vals = "s:h:1" -> {<<"s", "h", 1>>}
      [] vals = "s::" -> {<<"s", "none", None>>}
      [] vals = "s:h:1,t:g:2" -> {<<"s", "h", 1>>, <<"t", "g", 2>>}
      [] OTHER -> {}
WellFormed(e) == Named3(e.msg.vals) # {} /\ e.msg.sess \in {"none", "2", "2|1"}
Servers(cfg) == {<<x.name, x.host, x.port>> : x \in cfg.servers}
BrokerPart(cfg) == <<cfg.servers, cfg.session_id_master, cfg.myip>>
AddServerCalls(e) == CountIn(e.calls, LAMBDA x : x[1] = "addserver")

\* C23: a CONFIG message for the broker with a type other than REQUEST and
\* RESET and well formed servers "name:host:port": with a session id,
\* session_id_master becomes that id, myip becomes the host of the entry, and
\* each server is registered with host None and port None; without one, each
\* server is registered with its host and port and session_id_master and myip
\* stay. A REQUEST or a RESET changes nothing of the broker and registers nothing.
C23_BrokerServers ==
    \A e \in Log :
        IsBroker(e) =>
            /\ e.msg.ctype \in {"REQUEST", "RESET"} =>
                  /\ BrokerPart(e.cfgafter) = BrokerPart(e.cfgbefore)
                  /\ AddServerCalls(e) = 0
            /\ e.msg.ctype \notin {"REQUEST", "RESET"} /\ WellFormed(e) =>
                  /\ ~e.raised
                  /\ AddServerCalls(e) = Cardinality(Named3(e.msg.vals))
                  /\ IF e.msg.sess # "none"
                     THEN /\ e.cfgafter.session_id_master = 2
                          /\ \E x \in Named3(e.msg.vals) : e.cfgafter.myip = x[2]
                          /\ Servers(e.cfgafter) = Servers(e.cfgbefore) \cup
                                {<<x[1], "none", None>> : x \in Named3(e.msg.vals)}
                     ELSE /\ e.cfgafter.session_id_master = e.cfgbefore.session_id_master
                          /\ e.cfgafter.myip = e.cfgbefore.myip
                          /\ Servers(e.cfgafter) = Servers(e.cfgbefore) \cup Named3(e.msg.vals)
\* a master has sent its session id and a server, and then a server came
\* without a session id
C23_Witness ==
    \E e, f \in Log :
        /\ IsBroker(e) /\ WellFormed(e) /\ e.msg.ctype = "UPDATE" /\ e.msg.sess = "2|1"
        /\ IsBroker(f) /\ WellFormed(f) /\ f.msg.ctype = "NONE" /\ f.msg.sess = "none"
        /\ f.cfgbefore.session_id_master = 2
        /\ f.cfgafter.servers # f.cfgbefore.servers

\* ------------------------------------------------ the REGISTER messages
\* Connection 1, alone in session 1, has queued REGISTER messages (a file to
\* execute or none, the GUI TLV or none, the STRING flag or none) and SESSION
\* messages that delete session 1; its workers handle them while the script of
\* an executed file runs its session.
RegisterFrames ==
    {WellFramed(RegisterMsg(f, x, g)) :
        f \in {{}, {"STRING"}}, x \in {"none", "f.xml", "f.py"}, g \in {"none", "gui"}}
    \cup {WellFramed(SessionMsg({"DELETE"}, <<1>>))}
InitRegister ==
    InitWorkIn(RegisterFrames, {NoNodes}, {DEFINITION_STATE}, {FALSE}, {TRUE}, <<1>>,
               {DefaultConfig}, {<<>>})
NextRegister ==
    \/ \E w \in Workers :
          \/ WorkerTest(1, w) \/ WorkerGet(1, w) \/ HandleMessage(1, w)
          \/ Launch(1, w) \/ Poll(1, w) \/ RegisterGui(1, w) \/ SessionNext(1, w)
    \/ \E s \in SessIds : ScriptRun(s)
SpecRegister == InitRegister /\ [][NextRegister]_vars

IsRegister(e) == e.type = "REGISTER" /\ e.handler
Executing(e) == IsRegister(e) /\ e.msg.exec # "none" /\ "STRING" \in e.msg.flags

\* C21: the handling of a REGISTER message with an execute-server file and the
\* STRING flag gives exactly one reply: the REGISTER reply that names the new
\* session, or an EXCEPTION reply.
C21_ExecuteAlwaysReplies ==
    \A e \in Log :
        Executing(e) =>
            /\ Len(e.replies) = 1
            /\ \/ e.replies[1].type = "REGISTER" /\ e.replies[1].node \in sessions
               \/ e.replies[1] = ExceptionReply

IsGui(e) == IsRegister(e) /\ e.msg.exec = "none" /\ e.msg.gui # "none"

\* C22: once a REGISTER message with the GUI TLV and no execute-server file is
\* handled, the connection is master, the session whose client list holds the
\* connection is master, and the replies are two: the registration of the
\* capabilities, then the list of the sessions.
C22_GuiRegisters ==
    \A e \in Log :
        IsGui(e) =>
            /\ cmaster[e.c]
            /\ \A s \in SessIds : e.c \in Range(clients[s]) => smaster[s]
            /\ e.replies = <<register, Reply("SESSION", {}, None)>>

\* ------------------------------------------- receiving and handling together
\* Connection 1 is attached to session 1 with the connections of a client
\* list; its peer sends a script and stays connected; the receive loop queues
\* and mirrors the messages while the worker threads that were started handle
\* them. The peers of the other connections may be gone.
InitPipe(Scripts, Lists, Threads, NodeMaps) ==
    /\ sessions = {1}
    /\ sstate = [s \in SessIds |-> DEFINITION_STATE]
    /\ smaster = [s \in SessIds |-> FALSE]
    /\ \E nm \in NodeMaps :
          nodes = [s \in SessIds |-> IF s = 1 THEN nm ELSE [n \in NodeIds |-> "none"]]
    /\ config = [s \in SessIds |-> DefaultConfig]
    /\ services = <<>>
    /\ \E cl \in Lists :
        /\ clients = [s \in SessIds |-> IF s = 1 THEN cl ELSE <<>>]
        /\ csession = [c \in Conns |-> IF c \in Range(cl) THEN 1 ELSE None]
        /\ rpc = [c \in Conns |-> IF c \in Range(cl) THEN "hdr" ELSE "idle"]
    /\ handlers = clients
    /\ cmaster = [c \in Conns |-> FALSE]
    /\ done = [c \in Conns |-> FALSE]
    /\ queue = [c \in Conns |-> <<>>]
    /\ nsr = [c \in Conns |-> {}]
    /\ lock = [c \in Conns |-> None]
    /\ \E sc \in Scripts : wire = [c \in Conns |-> IF c = 1 THEN sc ELSE <<>>]
    /\ closeKind = [c \in Conns |-> "open"]
    /\ sockOk \in [Conns -> BOOLEAN]
    /\ sockOk[1]
    /\ sent = [c \in Conns |-> <<>>]
    /\ rcount = [c \in Conns |-> 0]
    /\ rgot = [c \in Conns |-> 0]
    /\ rmsg = [c \in Conns |-> NoMsg]
    /\ ridx = [c \in Conns |-> 1]
    /\ rsess = [c \in Conns |-> None]
    /\ rexit = [c \in Conns |-> "none"]
    /\ wait = [c \in Conns |-> 0]
    /\ jidx = [c \in Conns |-> 1]
    /\ rdel = [c \in Conns |-> FALSE]
    /\ \E T \in Threads :
          wpc = [c \in Conns |-> [w \in Workers |-> IF c = 1 /\ w \in T THEN "test" ELSE "idle"]]
    /\ wmsg = [c \in Conns |-> [w \in Workers |-> NoMsg]]
    /\ wres = [c \in Conns |-> [w \in Workers |-> FALSE]]
    /\ widx = [c \in Conns |-> [w \in Workers |-> 1]]
    /\ poll = [c \in Conns |-> [w \in Workers |-> NoPoll]]
    /\ hlog = <<>>
    /\ calls = <<>>
    /\ InitExt
NextPipe ==
    \/ Receive(1)
    \/ \E w \in Workers : WorkerTest(1, w) \/ WorkerGet(1, w) \/ HandleMessage(1, w)

\* the topology of two nodes and a link, and its instantiation
Topology ==
    <<WellFramed(NodeMsg({"ADD"}, 1, "default", FALSE)),
      WellFramed(NodeMsg({"ADD"}, 2, "default", FALSE)),
      WellFramed(LinkMsg({"ADD"}, 1, 2)),
      WellFramed(EventMsg({}, INSTANTIATION_STATE, None, "none", FALSE))>>
TopologyLists == {<<1>>, <<1, 2>>, <<2, 1, 3>>}
InitTopology == InitPipe({Topology}, TopologyLists, {Workers}, {[n \in NodeIds |-> "none"]})
SpecTopology == InitTopology /\ [][NextPipe]_vars

\* nothing is left to receive or to handle on connection c
Settled(c) ==
    /\ rpc[c] = "drain" \/ (rpc[c] = "hdr" /\ rcount[c] = Len(wire[c]))
    /\ Idle(c)
CallsOf(name) == CountIn(calls, LAMBDA x : x[1] = name)
MirroredTo(p, i) ==
    CountIn(sent[p], LAMBDA r : r.kind = "mirror" /\ r.from = 1 /\ r.id = i) = 1

\* C27: when the topology NODE(ADD 1), NODE(ADD 2), LINK(ADD 1-2),
\* EVENT(INSTANTIATION) of one client is received and handled, add_node was
\* called twice and add_link once, the session is in INSTANTIATION, and every
\* other connection of the session was sent each of the two NODE messages and
\* the LINK message.
C27_TopologyBuilt ==
    Settled(1) =>
        /\ CallsOf("add_node") = 2
        /\ CallsOf("add_link") = 1
        /\ sstate[1] = INSTANTIATION_STATE
        /\ \A p \in Range(clients[1]) \ {1} : \A i \in 1..3 : MirroredTo(p, i)

Position(i) == CHOOSE k \in 1..Len(hlog) : hlog[k].id = i
Handled(i) == \E k \in 1..Len(hlog) : hlog[k].id = i

\* C29: with more than one worker thread, when the EVENT(INSTANTIATION)
\* handler calls instantiate, the handling of every NODE and LINK message that
\* the connection received before that EVENT is over.
C29_InstantiationBarrier ==
    \A k \in 1..Len(hlog) :
        IsEvent(hlog[k]) /\ "instantiate" \in CallNames(hlog[k]) =>
            \A i \in 1..(hlog[k].id - 1) :
                wire[1][i].msg.type \in {"NODE", "LINK"} =>
                    \E j \in 1..(k - 1) : hlog[j].id = i

\* ------------------------------------------------ the order of the handling
\* Connection 1, alone in its session, receives up to MaxMsgs messages: an
\* EXECUTE for node 2, a NODE that adds node 2, an EVENT; one worker thread was
\* started, or all of them.
OrderFrames ==
    {WellFramed(ExecuteMsg({}, 2, 1, FALSE)),
     WellFramed(NodeMsg({"ADD"}, 2, "default", FALSE)),
     WellFramed(EventMsg({}, CONFIGURATION_STATE, None, "none", FALSE))}
InitOrder ==
    InitPipe(ScriptsOf(OrderFrames, {}), {<<1>>}, {{1}, Workers}, {[n \in NodeIds |-> "none"]})
SpecOrder == InitOrder /\ [][NextPipe]_vars

\* N: the worker threads of connection c
Threads(c) == {w \in Workers : wpc[c][w] # "idle"}
\* the k-th handling is the first one of its message
First(k) == \A j \in 1..(k - 1) : hlog[j].id # hlog[k].id
\* a message on the queue that no worker has handled yet
Fresh(m) == ~Handled(m.id)

\* C28 as stated: with a single worker the messages of a connection are
\* handled in exactly the order in which they were received.
C28_HandledInOrder ==
    Cardinality(Threads(1)) = 1 =>
        \A k, l \in 1..Len(hlog) : k < l => hlog[k].id <= hlog[l].id
\* C28: the messages of a connection enter the queue in the order in which
\* they were received; with a single worker each message is handled for the
\* first time in that order, and an EXECUTE message that its handler put back
\* on the queue is handled again after the messages that were behind it.
C28_FirstHandledInOrder ==
    /\ \A i, j \in 1..Len(queue[1]) :
          i < j /\ Fresh(queue[1][i]) /\ Fresh(queue[1][j]) => queue[1][i].id < queue[1][j].id
    /\ \A i \in 1..Len(queue[1]) : queue[1][i].id <= rcount[1]
    /\ Cardinality(Threads(1)) = 1 =>
          /\ \A k, l \in 1..Len(hlog) :
                k < l /\ First(k) /\ First(l) => hlog[k].id < hlog[l].id
          /\ \A k \in 1..Len(hlog) : ~First(k) => hlog[k].type = "EXECUTE"
\* a single worker has handled the first message, then the second, then the
\* first again
C28_Witness ==
    /\ Cardinality(Threads(1)) = 1
    /\ Len(hlog) >= 3
    /\ hlog[1].id = 1 /\ hlog[2].id = 2 /\ hlog[3].id = 1
\* two workers have handled the second message before the first
C28_Reordered ==
    /\ Cardinality(Threads(1)) > 1
    /\ Len(hlog) >= 2
    /\ hlog[1].id = 2 /\ hlog[2].id = 1
\* two workers are each in the handling of a message
C28_Overlap ==
    \E v, w \in Workers : v # w /\ wpc[1][v] = "handle" /\ wpc[1][w] = "handle"

\* ------------------------------------------------ membership of a session
\* the connection is in its receive loop
Connected(c) == InLoop(c)
\* no worker of the connection is inside the join of a SESSION message
Joining(c) ==
    \E w \in Workers : wpc[c][w] \in {"sdetach", "sremove", "scheck", "sdelete", "sattach"}
Times(list, c) == CountIn(list, LAMBDA x : x = c)

Taken(c) == {i \in 1..rcount[c] : rpc[c] \notin {"bodyTest", "bodyRecv", "decode", "queue"} \/ i < rcount[c]}

\* C34: a sendall that fails towards one peer while a NODE or LINK message is
\* mirrored does not end the receive loop of the sender; the message is
\* handled by the sender's workers, and every other peer of the session whose
\* socket works still gets its copy.
C34_MirrorFailureIsolated ==
    /\ rexit[1] # "exception"
    /\ Settled(1) =>
          \A i \in Taken(1) :
              /\ Handled(i)
              /\ Mirrored(wire[1][i].msg) =>
                    \A p \in Range(clients[1]) \ {1} : sockOk[p] => MirroredTo(p, i)

\* C31: the session that a connected connection references is in the
\* registry of the daemon, whatever SESSION messages were handled and
\* whichever connections have gone.
C31_SessionInRegistry ==
    \A c \in Conns : Connected(c) /\ ~Joining(c) => csession[c] \in sessions

\* the joins that connection 1 made (each one is followed by send_objects, as
\* the SESSION messages of this scenario carry the STRING flag), and the
\* SESSION messages with the ADD flag among the frames of its peer
JoinsMade == CountIn(calls, LAMBDA x : x[1] = "send_objects" /\ x[2] # None)
AddsSent ==
    Cardinality({i \in 1..Len(wire[1]) :
                    wire[1][i].msg.type = "SESSION" /\ "ADD" \in wire[1][i].msg.flags})

\* C32: the handling of a SESSION message with the ADD flag joins one session,
\* the first of the named sessions that exists, and none of those named after
\* it: the connection makes at most one join for each such message.
C32_JoinsFirstOnly == JoinsMade <= AddsSent

\* ------------------------------------------------ a join during the teardown
\* Connection 1 has queued one SESSION message that joins the sessions of the
\* other connections, which connect and stay; its peer closes, and finish()
\* runs beside the workers of the connection.
TeardownFrames == {WellFramed(SessionMsg({"ADD", "STRING"}, <<2, 3>>))}
InitTeardown ==
    /\ InitWork(TeardownFrames, {NoNodes}, {DEFINITION_STATE}, {FALSE}, {TRUE})
    /\ Len(wire[1]) = 1
NextTeardown ==
    \/ \E c \in Conns \ {1} : Connect(c)
    \/ RecvHeader(1)
    \/ Finish(1)
    \/ \E w \in Workers :
          WorkerTest(1, w) \/ WorkerGet(1, w) \/ HandleMessage(1, w) \/ SessionLoop(1, w)
SpecTeardown == InitTeardown /\ [][NextTeardown]_vars

\* finish() of connection c has ended
Finished(c) == rpc[c] = "closed"

\* C33: finish() and a worker that is inside the join of a SESSION message
\* both detach the connection: neither of them fails on an entry the other has
\* removed already, and when both have ended the callbacks of the connection
\* are registered in no session that it has left.
C33_DetachSafe ==
    /\ rexit[1] # "finish raised"
    /\ \A e \in Log : e.type = "SESSION" => ~e.raised
    /\ Finished(1) /\ ~Joining(1) =>
          \A s \in SessIds \ {csession[1]} : Times(handlers[s], 1) = 0

\* ------------------------------------------------ the emulation ids in steps
\* send_node_emulation_id takes no lock: its test, its sendall and its del are
\* steps of the worker, and the workers of a connection run them side by side.
\* The handling of a NODE message with ADD, up to the first of these steps
\* (session.add_node, the entry in node_status_request), and of an EVENT
\* message that enters INSTANTIATION (set_state, instantiate); every other
\* message is handled as in HandleMessage.
SendsOne(c, m) == m.type = "NODE" /\ "ADD" \in m.flags /\ ~NodeRejected(m)
SendsAll(c, m) == m.type = "EVENT" /\ m.etype = INSTANTIATION_STATE /\ m.node = None
HandleStart(c, w) ==
    /\ wpc[c][w] = "handle"
    /\ LET m == wmsg[c][w]
           A == add_node(Keep(c), m.node, m.ntype)
           B == IF "STRING" \in m.flags THEN [A EXCEPT !.nsr = @ \cup {m.node}] ELSE A
           P == Call(set_state(Keep(c), m.etype), "instantiate", None)
       IN  IF SendsOne(c, m) /\ ~A.raised /\ B.state = RUNTIME_STATE
           THEN /\ nodes' = [nodes EXCEPT ![csession[c]] = B.nodes]
                /\ nsr' = [nsr EXCEPT ![c] = B.nsr]
                /\ calls' = calls \o B.calls
                /\ widx' = [widx EXCEPT ![c][w] = m.node]
                /\ wres' = [wres EXCEPT ![c][w] = FALSE]
                /\ wpc' = [wpc EXCEPT ![c][w] = "idtest"]
                /\ UNCHANGED <<sstate, config, services, sent, hlog, poll>>
           ELSE IF SendsAll(c, m)
           THEN /\ sstate' = [sstate EXCEPT ![csession[c]] = P.state]
                /\ calls' = calls \o P.calls
                /\ widx' = [widx EXCEPT ![c][w] = None]
                /\ wres' = [wres EXCEPT ![c][w] = TRUE]
                /\ wpc' = [wpc EXCEPT ![c][w] = "idnext"]
                /\ UNCHANGED <<nodes, nsr, config, services, sent, hlog, poll>>
           ELSE /\ Apply(c, w, m, FALSE, TRUE, Handler(c, m))
                /\ UNCHANGED <<wres, widx, poll>>
    /\ UNCHANGED <<sessions, smaster, clients, handlers, csession, cmaster, done, queue,
                   lock, wire, extVars, closeKind, sockOk, rxVars, wmsg>>

\* where a worker goes after send_node_emulation_id: to the next node of the
\* loop of the EVENT handler, or to the end of the NODE handler
AfterSend(c, w, R) ==
    IF wres[c][w]
    THEN /\ nsr' = [nsr EXCEPT ![c] = R.nsr]
         /\ calls' = calls \o R.calls
         /\ wpc' = [wpc EXCEPT ![c][w] = "idnext"]
         /\ UNCHANGED <<sstate, nodes, config, services, sent, hlog>>
    ELSE Apply(c, w, wmsg[c][w], FALSE, TRUE, R)

\* "for _id in self.session.nodes": the nodes in the order of their ids
NextNode(c, w) ==
    /\ wpc[c][w] = "idnext"
    /\ LET rest == {n \in NodeIds : HasNode(Keep(c), n) /\ n > widx[c][w]}
       IN  IF rest = {}
           THEN /\ Apply(c, w, wmsg[c][w], FALSE, TRUE, Keep(c))
                /\ UNCHANGED widx
           ELSE /\ widx' = [widx EXCEPT ![c][w] = CHOOSE n \in rest : \A k \in rest : n <= k]
                /\ wpc' = [wpc EXCEPT ![c][w] = "idtest"]
                /\ UNCHANGED <<sstate, nodes, config, services, nsr, calls, sent, hlog>>
    /\ UNCHANGED <<sessions, smaster, clients, handlers, csession, cmaster, done, queue,
                   lock, wire, extVars, closeKind, sockOk, rxVars, wmsg, wres, poll>>

\* "if node_id in self.node_status_request:"
TestPending(c, w) ==
    /\ wpc[c][w] = "idtest"
    /\ IF widx[c][w] \in nsr[c]
       THEN /\ wpc' = [wpc EXCEPT ![c][w] = "idsend"]
            /\ UNCHANGED <<sstate, nodes, config, services, nsr, calls, sent, hlog>>
       ELSE AfterSend(c, w, Keep(c))
    /\ UNCHANGED <<sessions, smaster, clients, handlers, csession, cmaster, done, queue,
                   lock, wire, extVars, closeKind, sockOk, rxVars, wmsg, wres, widx, poll>>

\* "self.sendall(reply)", whose IOError is caught and logged
SendId(c, w) ==
    /\ wpc[c][w] = "idsend"
    /\ sent' = [sent EXCEPT ![c] = IF sockOk[c]
                                    THEN Append(@, Reply("NODE", {"ADD", "LOCAL"}, widx[c][w]))
                                    ELSE @]
    /\ wpc' = [wpc EXCEPT ![c][w] = "iddel"]
    /\ UNCHANGED <<sessVars, connVars, wire, extVars, closeKind, sockOk, rxVars, wmsg, wres, widx,
                   poll, logVars>>

\* "del self.node_status_request[node_id]": KeyError for an entry that is gone
DelPending(c, w) ==
    /\ wpc[c][w] = "iddel"
    /\ LET n == widx[c][w]
           K == Call(Keep(c), "del_status_request", n)
       IN  IF n \in nsr[c]
           THEN AfterSend(c, w, [K EXCEPT !.nsr = @ \ {n}])
           ELSE Apply(c, w, wmsg[c][w], FALSE, TRUE, Raise(K))
    /\ UNCHANGED <<sessions, smaster, clients, handlers, csession, cmaster, done, queue,
                   lock, wire, extVars, closeKind, sockOk, rxVars, wmsg, wres, widx, poll>>

send_node_emulation_id_steps(c, w) ==
    \/ NextNode(c, w)
    \/ TestPending(c, w)
    \/ SendId(c, w)
    \/ DelPending(c, w)

\* Connection 1, alone in its session, which holds no node and is in
\* CONFIGURATION or in RUNTIME, has queued NODE messages that add a node and
\* ask for its emulation id, and EVENT messages that enter INSTANTIATION.
IdFrames ==
    {WellFramed(NodeMsg({"ADD", "STRING"}, 1, "default", FALSE)),
     WellFramed(EventMsg({}, INSTANTIATION_STATE, None, "none", FALSE))}
InitIds == InitWork(IdFrames, {NoNodes}, {CONFIGURATION_STATE, RUNTIME_STATE}, {FALSE},
                    {TRUE, FALSE})
NextIds ==
    \E w \in Workers :
        \/ WorkerTest(1, w)
        \/ WorkerGet(1, w)
        \/ HandleStart(1, w)
        \/ send_node_emulation_id_steps(1, w)
SpecIds == InitIds /\ [][NextIds]_vars

IdReply(n) == Reply("NODE", {"ADD", "LOCAL"}, n)

\* C36: for a node that was added with NODE ADD|STRING the emulation-id reply
\* is sent at most once and its pending entry is removed exactly once, with
\* several workers too: no handling fails on the removal of an entry that
\* another worker has removed.
C36_EmulationIdOnce ==
    /\ \A n \in NodeIds : CountIn(sent[1], LAMBDA r : r = IdReply(n)) <= 1
    /\ \A e \in Log : e.raised => "del_status_request" \notin CallNames(e)

\* ------------------------------------------------ CONFIG messages of type 0
\* Connection 1, alone in its session, has queued CONFIG messages of the types
\* NONE (0) and UPDATE for the session options, the location, the metadata, the
\* broker and the services (without the opaque TLV), with a values TLV or none.
NoneFrames ==
    {WellFramed([ConfigMsg(o, t, None, NoIface, v) EXCEPT !.dtypes = "string"]) :
        o \in {OptionsName, LocationName, MetadataName, BrokerName, ServicesName},
        t \in {"NONE", "UPDATE"}, v \in {"", "s:h:1"}}
    \cup {WellFramed(ServicesMsg("NONE", None, "s:h:1", "", "none"))}
InitNone ==
    InitWorkIn(NoneFrames, {NoNodes}, {DEFINITION_STATE}, {FALSE}, {TRUE}, <<1>>,
               {DefaultConfig}, {<<>>})
SpecNone == InitNone /\ [][NextHandle]_vars

\* what the handling of the message of e leaves when its type is UPDATE
AsUpdate(e) ==
    Route([Keep(e.c) EXCEPT !.config = e.cfgbefore], [e.msg EXCEPT !.ctype = "UPDATE"],
          e.master)
IsNone(e) == IsConfig(e) /\ e.msg.ctype = "NONE"

\* C37: a CONFIG message of type NONE (0) with a values TLV is applied as an
\* UPDATE with the same values is: the session options, the location and the
\* metadata take the values, the services (without the opaque TLV, with string
\* data types) take them as default services, the broker registers the servers
\* named; without a values TLV the handling changes nothing and calls nothing.
C37_NoneAppliedAsUpdate ==
    \A e \in Log :
        IsNone(e) =>
            /\ e.cfgafter = AsUpdate(e).config
            /\ e.raised = (AsUpdate(e).raised \/ AsUpdate(e).none)
            /\ e.calls = AsUpdate(e).calls
            /\ e.msg.vals = "" => ~e.raised /\ e.cfgafter = e.cfgbefore /\ AddServerCalls(e) = 0
            /\ e.msg.vals # "" =>
                  /\ e.msg.obj \in {OptionsName, LocationName, MetadataName} =>
                        ~e.raised /\ Addressed(e.cfgafter, e.msg) = e.msg.vals
                  /\ e.msg.obj = ServicesName /\ e.msg.dtypes = "string" =>
                        ~e.raised /\ e.cfgafter.services = e.msg.vals
                  /\ e.msg.obj = BrokerName =>
                        ~e.raised /\ Servers(e.cfgafter) = Servers(e.cfgbefore) \cup Named3(e.msg.vals)
\* the location was set by a message of type NONE, and a message of type NONE
\* without values for the broker was handled
C37_Witness ==
    \E e, f \in Log :
        /\ IsNone(e) /\ e.msg.obj = LocationName /\ e.msg.vals # ""
        /\ e.cfgbefore.location = "default" /\ e.cfgafter.location = "s:h:1"
        /\ IsNone(f) /\ f.msg.obj = BrokerName /\ f.msg.vals = "" /\ f.cfgafter = f.cfgbefore

\* ------------------------------------------------ send_objects
\* The worker of connection 1 that handles a SESSION message with ADD and
\* STRING, or an EVENT message of type FILE_OPEN, describes session 1 to the
\* handlers of the session, while another thread adds and deletes nodes (under
\* session._nodes_lock), links and hook scripts.
Sender == 1
RECURSIVE Ascending(_)
\* the members of a set of numbers, the smallest first
Ascending(S) ==
    IF S = {} THEN <<>>
    ELSE LET x == CHOOSE y \in S : \A z \in S : y <= z
         IN  <<x>> \o Ascending(S \ {x})
Held == {n \in NodeIds : nodes[1][n] # "none"}
NoLink == <<None, None>>
Notice(kind, a, link) == [kind |-> kind, a |-> a, link |-> link]
\* a send_objects that broadcasts the links before the nodes
NextStageLinksFirst(stage) ==
    CASE stage = "collect" -> "links"
      [] stage = "links" -> "nodes"
      [] stage = "nodes" -> "models"
      [] stage = "models" -> "services"
      [] stage = "services" -> "hooks"
      [] stage = "hooks" -> "options"
      [] OTHER -> "done"
\* the order of the parts of send_objects
NextStage(stage) ==
    CASE stage = "collect" -> "nodes"
      [] stage = "nodes" -> "links"
      [] stage = "links" -> "models"
      [] stage = "models" -> "services"
      [] stage = "services" -> "hooks"
      [] stage = "hooks" -> "options"
      [] OTHER -> "done"

\* "with self.session._nodes_lock:"
ObjStart ==
    /\ opc = "idle" /\ nodes_lock = None
    /\ nodes_lock' = Sender
    /\ opc' = "collect"
    /\ oidx' = None
    /\ UNCHANGED <<coreVars, links, hooks, nodes_data, links_data, out, ebVars>>

\* one turn of "for node_id in self.session.nodes": the data of the node and
\* of its links; after the last node the lock is released
Collect ==
    /\ opc = "collect"
    /\ LET rest == {n \in Held : n > oidx}
           n == CHOOSE x \in rest : \A y \in rest : x <= y
       IN  IF rest = {}
           THEN /\ nodes_lock' = None
                /\ opc' = NextStage("collect")
                /\ oidx' = 1
                /\ UNCHANGED <<nodes_data, links_data>>
           ELSE /\ nodes_data' = Append(nodes_data, n)
                /\ links_data' = links_data \o [i \in 1..Len(Ascending({k[2] : k \in {l \in links : l[1] = n}})) |->
                                               <<n, Ascending({k[2] : k \in {l \in links : l[1] = n}})[i]>>]
                /\ oidx' = n
                /\ UNCHANGED <<nodes_lock, opc>>
    /\ UNCHANGED <<coreVars, links, hooks, out, ebVars>>

\* "for node_data in nodes_data: self.session.broadcast_node(node_data)"
SendNodes ==
    /\ opc = "nodes"
    /\ IF oidx > Len(nodes_data)
       THEN /\ opc' = NextStage("nodes") /\ oidx' = 1 /\ UNCHANGED out
       ELSE /\ out' = Append(out, Notice("node", nodes_data[oidx], NoLink))
            /\ oidx' = oidx + 1 /\ UNCHANGED opc
    /\ UNCHANGED <<coreVars, links, hooks, nodes_lock, nodes_data, links_data, ebVars>>

\* "for link_data in links_data: self.session.broadcast_link(link_data)"
SendLinks ==
    /\ opc = "links"
    /\ IF oidx > Len(links_data)
       THEN /\ opc' = NextStage("links") /\ oidx' = 1 /\ UNCHANGED out
       ELSE /\ out' = Append(out, Notice("link", None, links_data[oidx]))
            /\ oidx' = oidx + 1 /\ UNCHANGED opc
    /\ UNCHANGED <<coreVars, links, hooks, nodes_lock, nodes_data, links_data, ebVars>>

\* the configurations of the mobility models, then those of the emane models
Configured(store) == Ascending({k \in ModelKeys : store[k] # "default"})
SendModels ==
    /\ opc = "models"
    /\ out' = out \o [i \in 1..Len(Configured(config[1].mobility)) |->
                         Notice("model", Configured(config[1].mobility)[i], NoLink)]
                  \o [i \in 1..Len(Configured(config[1].emanemodels)) |->
                         Notice("model", Configured(config[1].emanemodels)[i], NoLink)]
    /\ opc' = NextStage("models")
    /\ UNCHANGED <<coreVars, links, hooks, nodes_lock, oidx, nodes_data, links_data, ebVars>>

\* the customized services: the configuration of each, and its files
SendServices ==
    /\ opc = "services"
    /\ out' = IF config[1].services = "default" THEN out
              ELSE out \o <<Notice("service", None, NoLink), Notice("file", None, NoLink)>>
    /\ opc' = NextStage("services")
    /\ UNCHANGED <<coreVars, links, hooks, nodes_lock, oidx, nodes_data, links_data, ebVars>>

\* "for state in sorted(self.session._hooks.keys())"
SendHooks ==
    /\ opc = "hooks"
    /\ out' = out \o [i \in 1..Cardinality(hooks) |-> Notice("hook", Ascending(hooks)[i], NoLink)]
    /\ opc' = NextStage("hooks")
    /\ UNCHANGED <<coreVars, links, hooks, nodes_lock, oidx, nodes_data, links_data, ebVars>>

\* the session options, and the metadata when there is any
SendOptions ==
    /\ opc = "options"
    /\ out' = out \o <<Notice("options", None, NoLink)>>
                  \o (IF config[1].metadata = "default" THEN <<>>
                      ELSE <<Notice("metadata", None, NoLink)>>)
    /\ opc' = NextStage("options")
    /\ UNCHANGED <<coreVars, links, hooks, nodes_lock, oidx, nodes_data, links_data, ebVars>>

send_objects ==
    \/ ObjStart
    \/ Collect
    \/ SendNodes
    \/ SendLinks
    \/ SendModels
    \/ SendServices
    \/ SendHooks
    \/ SendOptions

\* session.add_node and session.delete_node of another thread, which take
\* session._nodes_lock; the links of a deleted node go with it
OtherAddNode(n) ==
    /\ nodes_lock = None /\ n \notin Held
    /\ nodes' = [nodes EXCEPT ![1][n] = "default"]
    /\ UNCHANGED <<sessions, sstate, smaster, config, services, clients, handlers, connVars,
                   sockVars, rxVars, wkVars, logVars, extVars>>
OtherDeleteNode(n) ==
    /\ nodes_lock = None /\ n \in Held
    /\ nodes' = [nodes EXCEPT ![1][n] = "none"]
    /\ links' = {l \in links : n \notin {l[1], l[2]}}
    /\ UNCHANGED <<sessions, sstate, smaster, config, services, clients, handlers, connVars,
                   sockVars, rxVars, wkVars, logVars, hooks, nodes_lock, opc, oidx,
                   nodes_data, links_data, out, ebVars>>
\* session.add_link of another thread, between two nodes of the session
OtherAddLink(a, b) ==
    /\ a \in Held /\ b \in Held /\ a < b
    /\ links' = links \cup {<<a, b>>}
    /\ UNCHANGED <<coreVars, hooks, nodes_lock, opc, oidx, nodes_data, links_data, out, ebVars>>
\* session.set_hook of another thread
OtherSetHook(state) ==
    /\ hooks' = hooks \cup {state}
    /\ UNCHANGED <<coreVars, links, nodes_lock, opc, oidx, nodes_data, links_data, out, ebVars>>

InitObjects ==
    InitWorkIn({}, {NoNodes, SomeNodes}, {CONFIGURATION_STATE}, {FALSE}, {TRUE}, <<1>>,
               {DefaultConfig, AllSame("a")}, {<<>>})
NextObjects ==
    \/ send_objects
    \/ \E n \in NodeIds : OtherAddNode(n) \/ OtherDeleteNode(n)
    \/ \E a, b \in NodeIds : OtherAddLink(a, b)
    \/ \E st \in {RUNTIME_STATE, SHUTDOWN_STATE} : OtherSetHook(st)
SpecObjects == InitObjects /\ [][NextObjects]_vars

Kinds(seq) == {seq[i].kind : i \in 1..Len(seq)}
Before(k1, k2) ==
    \A i, j \in 1..Len(out) : out[i].kind = k1 /\ out[j].kind = k2 => i < j
Of(kind) == SelectSeq(out, LAMBDA x : x.kind = kind)

Running(u) == upc[u].pc \notin {"new", "ended"}
Registered == {w \in Wlans : last_update_time[w] # "none"}
At(t, pc) == cpc[t].pc = pc
Goes(t, pc) == cpc' = [cpc EXCEPT ![t].pc = pc]
\* "self.updates.remove(wlan)"
updated(w) ==
    /\ last_update_time' = [last_update_time EXCEPT ![w] = "new"]
    /\ updates' = RemoveFirst(updates, w)

\* CoreNetwork.__init__: startup() runs the commands that create the chain of
\* the bridge inside ebtablescmds, "with ebtables_lock:"
NetStartup(t, w) ==
    /\ At(t, "idle") /\ net_up[w] = "new" /\ ebtables_lock = None
    /\ ebtables_lock' = t
    /\ net_up' = [net_up EXCEPT ![w] = "starting"]
    /\ cpc' = [cpc EXCEPT ![t] = [pc |-> "startup", w |-> w]]
    /\ UNCHANGED <<coreVars, objVars, doupdateloop, updatethread, updatelock, updates,
                   last_update_time, upc, ovs_lock>>
\* the commands have run: "self.up = True", then ebq.startupdateloop(self)
NetStarted(t) ==
    /\ At(t, "startup")
    /\ ebtables_lock' = None
    /\ net_up' = [net_up EXCEPT ![cpc[t].w] = "up"]
    /\ Goes(t, "register")
    /\ UNCHANGED <<coreVars, objVars, doupdateloop, updatethread, updatelock, updates,
                   last_update_time, upc, ovs_lock>>
\* startupdateloop: "with self.updatelock: self.last_update_time[wlan] = time.time()"
StartRegister(t) ==
    /\ At(t, "register") /\ updatelock = None
    /\ last_update_time' = [last_update_time EXCEPT ![cpc[t].w] = "new"]
    /\ Goes(t, "starttest")
    /\ UNCHANGED <<coreVars, objVars, doupdateloop, updatethread, updatelock, updates,
                   net_up, upc, ebtables_lock, ovs_lock>>
\* startupdateloop: "if self.doupdateloop: return"
StartTest(t) ==
    /\ At(t, "starttest")
    /\ cpc' = [cpc EXCEPT ![t] = IF doupdateloop THEN NoCall ELSE [@ EXCEPT !.pc = "startthread"]]
    /\ UNCHANGED <<coreVars, objVars, doupdateloop, updatethread, updatelock, updates,
                   last_update_time, net_up, upc, ebtables_lock, ovs_lock>>
\* startupdateloop: "self.doupdateloop = True", a new thread, its start()
StartThread(t) ==
    /\ At(t, "startthread")
    /\ \E u \in Loops :
        /\ upc[u].pc = "new" /\ \A v \in Loops : upc[v].pc = "new" => u <= v
        /\ doupdateloop' = TRUE
        /\ updatethread' = u
        /\ upc' = [upc EXCEPT ![u].pc = "test"]
    /\ cpc' = [cpc EXCEPT ![t] = NoCall]
    /\ UNCHANGED <<coreVars, objVars, updatelock, updates, last_update_time, net_up,
                   ebtables_lock, ovs_lock>>
startupdateloop(t) == StartRegister(t) \/ StartTest(t) \/ StartThread(t)

\* CoreNetwork.link and unlink, which end in ebq.ebchange(self): "with
\* self.updatelock: if wlan not in self.updates: self.updates.append(wlan)"
ebchange(t, w) ==
    /\ At(t, "idle") /\ net_up[w] \in {"up", "closing"} /\ updatelock = None
    /\ updates' = IF w \in Range(updates) THEN updates ELSE Append(updates, w)
    /\ UNCHANGED <<coreVars, objVars, doupdateloop, updatethread, updatelock,
                   last_update_time, net_up, cpc, upc, ebtables_lock, ovs_lock>>

\* CoreNetwork.shutdown of a network that is up: ebq.stopupdateloop(self)
NetShutdown(t, w) ==
    /\ At(t, "idle") /\ net_up[w] = "up"
    /\ net_up' = [net_up EXCEPT ![w] = "closing"]
    /\ cpc' = [cpc EXCEPT ![t] = [pc |-> "stopdel", w |-> w]]
    /\ UNCHANGED <<coreVars, objVars, doupdateloop, updatethread, updatelock, updates,
                   last_update_time, upc, ebtables_lock, ovs_lock>>
\* stopupdateloop: "with self.updatelock: del self.last_update_time[wlan]",
\* whose KeyError is logged
StopDel(t) ==
    /\ At(t, "stopdel") /\ updatelock = None
    /\ last_update_time' = [last_update_time EXCEPT ![cpc[t].w] = "none"]
    /\ Goes(t, "stoplen")
    /\ UNCHANGED <<coreVars, objVars, doupdateloop, updatethread, updatelock, updates,
                   net_up, upc, ebtables_lock, ovs_lock>>
\* stopupdateloop: "if len(self.last_update_time) > 0: return"
StopLen(t) ==
    /\ At(t, "stoplen")
    /\ Goes(t, IF Registered # {} THEN "shutcmds" ELSE "stopflag")
    /\ UNCHANGED <<coreVars, objVars, doupdateloop, updatethread, updatelock, updates,
                   last_update_time, net_up, upc, ebtables_lock, ovs_lock>>
\* stopupdateloop: "self.doupdateloop = False", "if self.updatethread:"
StopFlag(t) ==
    /\ At(t, "stopflag")
    /\ doupdateloop' = FALSE
    /\ Goes(t, IF updatethread # None THEN "stopjoin" ELSE "shutcmds")
    /\ UNCHANGED <<coreVars, objVars, updatethread, updatelock, updates, last_update_time,
                   net_up, upc, ebtables_lock, ovs_lock>>
\* stopupdateloop: "self.updatethread.join()", which returns when the thread
\* has ended, and "self.updatethread = None"; the attribute is read again for
\* the join, and None has no join
StopJoin(t) ==
    /\ At(t, "stopjoin")
    /\ IF updatethread = None
       THEN /\ Goes(t, "raised")
            /\ UNCHANGED updatethread
       ELSE /\ upc[updatethread].pc = "ended"
            /\ updatethread' = None
            /\ Goes(t, "shutcmds")
    /\ UNCHANGED <<coreVars, objVars, doupdateloop, updatelock, updates, last_update_time,
                   net_up, upc, ebtables_lock, ovs_lock>>
stopupdateloop(t) == StopDel(t) \/ StopLen(t) \/ StopFlag(t) \/ StopJoin(t)

\* shutdown goes on: the commands that remove the chain, inside ebtablescmds
ShutCommands(t) ==
    /\ At(t, "shutcmds") /\ ebtables_lock = None
    /\ ebtables_lock' = t
    /\ Goes(t, "shutdown")
    /\ UNCHANGED <<coreVars, objVars, doupdateloop, updatethread, updatelock, updates,
                   last_update_time, net_up, upc, ovs_lock>>
\* the commands have run: "del self.session", "self.up = False"
NetDown(t) ==
    /\ At(t, "shutdown")
    /\ ebtables_lock' = None
    /\ net_up' = [net_up EXCEPT ![cpc[t].w] = "down"]
    /\ cpc' = [cpc EXCEPT ![t] = NoCall]
    /\ UNCHANGED <<coreVars, objVars, doupdateloop, updatethread, updatelock, updates,
                   last_update_time, upc, ovs_lock>>
\* an exception that stopupdateloop raised leaves shutdown()
ShutdownRaised(t) ==
    /\ At(t, "raised")
    /\ cpc' = [cpc EXCEPT ![t] = NoCall]
    /\ UNCHANGED <<coreVars, objVars, doupdateloop, updatethread, updatelock, updates,
                   last_update_time, net_up, upc, ebtables_lock, ovs_lock>>

\* openvswitch.ebtables_commands of an OvsNet that starts up or shuts down:
\* "with ebtables_lock:", the lock of openvswitch.py
ebtables_commands(t) ==
    \/ /\ At(t, "idle") /\ ovs_lock = None
       /\ ovs_lock' = t
       /\ Goes(t, "ovs")
       /\ UNCHANGED <<coreVars, objVars, doupdateloop, updatethread, updatelock, updates,
                      last_update_time, net_up, upc, ebtables_lock>>
    \/ /\ At(t, "ovs")
       /\ ovs_lock' = None
       /\ Goes(t, "idle")
       /\ UNCHANGED <<coreVars, objVars, doupdateloop, updatethread, updatelock, updates,
                      last_update_time, net_up, upc, ebtables_lock>>

\* updateloop: "while self.doupdateloop:"
LoopTest(u) ==
    /\ upc[u].pc = "test"
    /\ upc' = [upc EXCEPT ![u].pc = IF doupdateloop THEN "lock" ELSE "ended"]
    /\ UNCHANGED <<coreVars, objVars, doupdateloop, updatethread, updatelock, updates,
                   last_update_time, net_up, cpc, ebtables_lock, ovs_lock>>
\* updateloop: "with self.updatelock:", the start of a pass over self.updates
LoopLock(u) ==
    /\ upc[u].pc = "lock" /\ updatelock = None
    /\ updatelock' = LoopId(u)
    /\ upc' = [upc EXCEPT ![u] = [pc |-> "iter", idx |-> 1, start |-> updates, seen |-> {}]]
    /\ UNCHANGED <<coreVars, objVars, doupdateloop, updatethread, updates,
                   last_update_time, net_up, cpc, ebtables_lock, ovs_lock>>
\* one turn of "for wlan in self.updates": the iterator of a list goes by the
\* index, whatever was removed from the list; a WLAN without its session is
\* marked as updated; lastupdate() enters a WLAN that has no time stamp; a WLAN
\* whose time stamp is older than the rate gets its commands built and committed
LoopIter(u) ==
    /\ upc[u].pc = "iter"
    /\ LET i == upc[u].idx
           w == updates[i]
       IN  IF i > Len(updates)
           THEN /\ updatelock' = None
                /\ upc' = [upc EXCEPT ![u].pc = "sleep"]
                /\ UNCHANGED <<updates, last_update_time>>
           ELSE IF net_up[w] = "down"
           THEN /\ updated(w)
                /\ upc' = [upc EXCEPT ![u].idx = i + 1, ![u].seen = @ \cup {w}]
                /\ UNCHANGED updatelock
           ELSE IF last_update_time[w] = "old"
           THEN /\ upc' = [upc EXCEPT ![u].pc = "commit", ![u].seen = @ \cup {w}]
                /\ UNCHANGED <<updatelock, updates, last_update_time>>
           ELSE /\ last_update_time' = [last_update_time EXCEPT ![w] = "new"]
                /\ upc' = [upc EXCEPT ![u].idx = i + 1, ![u].seen = @ \cup {w}]
                /\ UNCHANGED <<updatelock, updates>>
    /\ UNCHANGED <<coreVars, objVars, doupdateloop, updatethread, net_up, cpc,
                   ebtables_lock, ovs_lock>>
\* ebcommit has run its ebtables commands: "self.updated(wlan)"
LoopCommit(u) ==
    /\ upc[u].pc = "commit"
    /\ updated(updates[upc[u].idx])
    /\ upc' = [upc EXCEPT ![u].pc = "iter", ![u].idx = @ + 1]
    /\ UNCHANGED <<coreVars, objVars, doupdateloop, updatethread, updatelock, net_up, cpc,
                   ebtables_lock, ovs_lock>>
\* "time.sleep(self.rate)"
LoopSleep(u) ==
    /\ upc[u].pc = "sleep"
    /\ upc' = [upc EXCEPT ![u] = [NoLoop EXCEPT !.pc = "test"]]
    /\ UNCHANGED <<coreVars, objVars, doupdateloop, updatethread, updatelock, updates,
                   last_update_time, net_up, cpc, ebtables_lock, ovs_lock>>
updateloop(u) == LoopTest(u) \/ LoopLock(u) \/ LoopIter(u) \/ LoopCommit(u) \/ LoopSleep(u)

\* more than the rate interval passes since the update of a WLAN
Elapse(w) ==
    /\ last_update_time[w] = "new"
    /\ last_update_time' = [last_update_time EXCEPT ![w] = "old"]
    /\ UNCHANGED <<coreVars, objVars, doupdateloop, updatethread, updatelock, updates,
                   net_up, cpc, upc, ebtables_lock, ovs_lock>>

InitQueue ==
    InitWorkIn({}, {NoNodes}, {DEFINITION_STATE}, {FALSE}, {TRUE}, <<1>>, {DefaultConfig},
               {<<>>})
NextQueue ==
    \/ \E t \in Callers, w \in Wlans : NetStartup(t, w) \/ ebchange(t, w) \/ NetShutdown(t, w)
    \/ \E t \in Callers :
          \/ NetStarted(t)
          \/ startupdateloop(t)
          \/ stopupdateloop(t)
          \/ ShutCommands(t)
          \/ NetDown(t)
          \/ ShutdownRaised(t)
          \/ ebtables_commands(t)
    \/ \E u \in Loops : updateloop(u)
    \/ \E w \in Wlans : Elapse(w)
SpecQueue == InitQueue /\ [][NextQueue]_vars

\* no thread is inside a call of the queue or of a network
Calm == \A t \in Callers : At(t, "idle")

\* C38: whatever threads call startupdateloop and stopupdateloop, at most one
\* update-loop thread of the queue is running; one is running whenever a WLAN
\* is registered and no call is under way; and stopupdateloop joins a thread
\* that it has told to stop, so that the join returns: it does not fail, and
\* the flag is not set again while it waits.
C38_SingleUpdateLoop ==
    /\ Cardinality({u \in Loops : Running(u)}) <= 1
    /\ Calm /\ Registered # {} => \E u \in Loops : Running(u)
    /\ \A t \in Callers : ~At(t, "raised")
    /\ \A t \in Callers : At(t, "stopjoin") => ~doupdateloop

\* C39: a WLAN is at most once in the pending list, and a pass of the update
\* loop visits every WLAN that was pending when the pass started.
C39_PendingCoalescedComplete ==
    /\ \A w \in Wlans : Times(updates, w) <= 1
    /\ \A u \in Loops : upc[u].pc = "sleep" => Range(upc[u].start) \subseteq upc[u].seen

\* the threads that are running ebtables commands
InEbtables ==
    {t \in Callers : cpc[t].pc \in {"startup", "shutdown", "ovs"}}
        \cup {LoopId(u) : u \in {v \in Loops : upc[v].pc = "commit"}}

\* C40: at most one thread at a time runs ebtables commands: the commit of the
\* update loop, the commands of a bridge that starts up or shuts down, and
\* those of the openvswitch module exclude one another.
C40_EbtablesExclusive == Cardinality(InEbtables) <= 1
====
